---------------------------- MODULE Spec2Model ----------------------------
(***************************************************************************)
(* Spline linear problems of DDC (yasahi-hpc/ddc): the 2x2-blocks Schur    *)
(* complement solver, the SplineBuilder that owns one, and the non-uniform *)
(* B-spline basis evaluation.  Real numbers are exact rationals <<n, d>>.  *)
(***************************************************************************)
EXTENDS Integers, Sequences, FiniteSets, TLC

(***************************************************************************)
(* Bounds of the model.                                                    *)
(***************************************************************************)
\* a client assembles matrices of non-negative integer entries whose sum is at
\* most MaxWeight
MaxWeight == 4
\* right-hand-side entries handed to solve are the integers 0 .. MaxRhs
MaxRhs == 1
\* number of get_element/set_element calls a client makes after setup_solver
MaxLateCalls == 1
\* number of right-hand-side columns (batch size) of a solve is 1 .. MaxCols
MaxCols == 1
\* knot sequences are built for the degrees 1 .. MaxKnotDegree
MaxKnotDegree == 5
\* the block decomposition is examined on matrices of size 0 .. MaxMatSize with
\* at most MaxShapeWeight entries set to 1
MaxMatSize == 3
MaxShapeWeight == 2
\* dense2coo is called on views of 0 .. MaxCooExtent rows and columns with at
\* most MaxCooNonZeros entries other than 0
MaxCooExtent == 2
MaxCooNonZeros == 3
\* the front of an interpolation domain has a uid in 0 .. MaxFront
MaxFront == 2
\* number of cells of the bases of the stepped binary search
MaxSearchCells == 5
\* number of columns of the views of a parallel region
MaxParCols == 2
\* B-spline bases have degree 1 .. MaxDegree, 1 .. MaxCells cells, each of an
\* integer width 1 .. MaxWidth, the first break point being 0
MaxDegree == 3
MaxCells == 4
MaxWidth == 2
\* coordinates handed to the basis are the multiples of 1/XDen from one step
\* below rmin to one step above rmax
XDen == 2
\* a SplineBuilder is built on cells of unequal widths up to this degree, and on
\* cells of equal widths above it: the exact entries of the factorization of
\* the other matrices do not fit the integers of the model checker
MaxNonUniformDegree == 2
\* number of operator() calls made on one SplineBuilder
MaxOperatorCalls == 2
\* a SplineBuilder with HERMITE or GREVILLE boundary conditions is built on a
\* non-periodic basis of degree 1 .. MaxHermiteDegree with 1 .. MaxHermiteCells
\* cells (one cell above degree MaxDegree), and called at most MaxHermiteCalls
\* times
MaxHermiteDegree == 5
MaxHermiteCells == 2
MaxHermiteCalls == 1

(***************************************************************************)
(* Exact rational arithmetic (the model of double).                        *)
(***************************************************************************)
Abs(n) == IF n < 0 THEN -n ELSE n

RECURSIVE GCD(_, _)
GCD(a, b) == IF b = 0 THEN a ELSE GCD(b, a % b)

Rat(n, d) ==
    LET g == GCD(Abs(n), Abs(d))
        s == IF d < 0 THEN -1 ELSE 1
    IN  <<(s * n) \div g, (s * d) \div g>>

Int2Rat(n) == <<n, 1>>
Zero == <<0, 1>>
One == <<1, 1>>

\* sums over the least common denominator and products with cross-cancellation
\* keep the intermediate integers small
RAdd(x, y) ==
    LET g == GCD(x[2], y[2])
    IN  Rat(x[1] * (y[2] \div g) + y[1] * (x[2] \div g), (x[2] \div g) * y[2])
RSub(x, y) ==
    LET g == GCD(x[2], y[2])
    IN  Rat(x[1] * (y[2] \div g) - y[1] * (x[2] \div g), (x[2] \div g) * y[2])
RMul(x, y) ==
    LET g1 == GCD(Abs(x[1]), y[2])
        g2 == GCD(Abs(y[1]), x[2])
    IN  Rat((x[1] \div g1) * (y[1] \div g2), (x[2] \div g2) * (y[2] \div g1))
RDiv(x, y) == RMul(x, Rat(y[2], y[1]))
RNeg(x) == <<-x[1], x[2]>>
RLt(x, y) == x[1] * y[2] < y[1] * x[2]
RLe(x, y) == x[1] * y[2] <= y[1] * x[2]

\* statements in sequence: the value v of the first is computed, then the rest
After(v, rest(_)) == IF v = v THEN rest(v) ELSE v

(***************************************************************************)
(* Dense row-major storage: M[i][j], 0-based as in the source.             *)
(***************************************************************************)
\* A vector of n entries.  `@@ << >>` leaves a function unchanged; it makes TLC
\* enumerate the entries once instead of re-evaluating f at every access.
Vec(n, f(_)) == [p \in 0 .. n - 1 |-> f(p)] @@ << >>

Mat(nr, nc, f(_, _)) == Vec(nr, LAMBDA i : Vec(nc, LAMBDA j : f(i, j)))

ZeroMat(nr, nc) == Mat(nr, nc, LAMBDA i, j : Zero)

Transpose(M, nr, nc) == Mat(nc, nr, LAMBDA i, j : M[j][i])

RECURSIVE RSum(_, _, _)
\* sum of f(l) for l = lo .. hi - 1, accumulated in loop order
RSum(f(_), lo, hi) == IF lo >= hi THEN Zero ELSE RAdd(RSum(f, lo, hi - 1), f(hi - 1))

\* product of an (nr x m) by an (m x nc) matrix
MatMul(A, B, nr, m, nc) ==
    Mat(nr, nc, LAMBDA i, j : RSum(LAMBDA l : RMul(A[i][l], B[l][j]), 0, m))

\* rows lo .. hi-1 of M as an (hi - lo) x nc view
SubRows(M, lo, hi, nc) == Mat(hi - lo, nc, LAMBDA i, j : M[lo + i][j])

RECURSIVE GaussJordanFrom(_, _, _, _)
\* Gauss-Jordan elimination of the n x w augmented matrix A from column k on,
\* pivoting on the first row with a non-zero entry; ok is FALSE when singular
GaussJordanFrom(A, n, w, k) ==
    IF k >= n THEN [ok |-> TRUE, a |-> A]
    ELSE LET cand == {r \in k .. n - 1 : A[r][k] # Zero}
         IN  IF cand = {} THEN [ok |-> FALSE, a |-> A]
             ELSE LET p == CHOOSE r \in cand : \A q \in cand : r <= q
                      row(i) == IF i = k THEN A[p] ELSE IF i = p THEN A[k] ELSE A[i]
                      piv == A[p][k]
                      prow == Vec(w, LAMBDA j : RDiv(A[p][j], piv))
                      A2 == Mat(n, w, LAMBDA i, j :
                                    IF i = k THEN prow[j]
                                    ELSE RSub(row(i)[j], RMul(row(i)[k], prow[j])))
                  IN  GaussJordanFrom(A2, n, w, k + 1)

\* whether the n x n matrix M has no inverse
Singular(M, n) == ~GaussJordanFrom(M, n, n, 0).ok

\* the solution X of M * X = B for an invertible n x n matrix M
ExactSolve(M, n, B, nc) ==
    LET aug == Mat(n, n + nc, LAMBDA i, j : IF j < n THEN M[i][j] ELSE B[i][j - n])
        r == GaussJordanFrom(aug, n, n + nc, 0)
    IN  Mat(n, nc, LAMBDA i, j : r.a[i][n + j])


(***************************************************************************)
(* A sub-block: some concrete SplinesLinearProblem (dense for the          *)
(* bottom-right block).  Its storage and factorization are private to the  *)
(* concrete class; the contract of the abstract class is all that is used: *)
(* element access before setup_solver, an exact solve after it.            *)
(***************************************************************************)
\* `info` is the status the LAPACK routine of the block reports in solve
NewBlock(n) == [size |-> n, a |-> ZeroMat(n, n), factorized |-> FALSE, info |-> 0]

\* a top-left block may itself be a SplinesLinearProblem2x2Blocks, whose
\* virtual methods are then the ones called
RECURSIVE get_element(_, _, _)
RECURSIVE set_element(_, _, _, _)
RECURSIVE setup_solver(_)
RECURSIVE solve(_, _, _, _, _, _)

Is2x2(blk) == "m_top_left_block" \in DOMAIN blk

\* size() of a block
Block_size(blk) == IF Is2x2(blk) THEN blk.m_size ELSE blk.size

\* whether setup_solver has run to its end on a block
IsFactorized(blk) ==
    IF Is2x2(blk) THEN blk.m_bottom_right_block.factorized ELSE blk.factorized

\* what a virtual method of a nested block returned, as the result of a block
ElementOf(r) == [ok |-> r.status = "ok", val |-> r.val]

ObjectOf(r) == [ok |-> r.status = "ok", blk |-> r]

SolutionOf(r) == [ok |-> r.self.status = "ok", x |-> r.b]

\* get_element of a sub-block: the stored entry, or a precondition violation
Block_get_element(blk, i, j) ==
    IF Is2x2(blk)
    THEN ElementOf(get_element(blk, i, j))
    ELSE IF blk.factorized \/ i >= blk.size \/ j >= blk.size
    THEN [ok |-> FALSE, val |-> Zero]
    ELSE [ok |-> TRUE, val |-> blk.a[i][j]]

\* set_element of a sub-block: ok is FALSE on a precondition violation
Block_set_element(blk, i, j, aij) ==
    IF Is2x2(blk)
    THEN ObjectOf(set_element(blk, i, j, aij))
    ELSE IF blk.factorized \/ i >= blk.size \/ j >= blk.size
    THEN [ok |-> FALSE, blk |-> blk]
    ELSE [ok |-> TRUE, blk |-> [blk EXCEPT !.a[i][j] = aij]]

\* setup_solver of a sub-block: factorizes; a singular matrix is a SolverFailure
Block_setup_solver(blk) ==
    IF Is2x2(blk)
    THEN ObjectOf(setup_solver(blk))
    ELSE IF blk.factorized \/ Singular(blk.a, blk.size)
    THEN [ok |-> FALSE, blk |-> blk]
    ELSE [ok |-> TRUE, blk |-> [blk EXCEPT !.factorized = TRUE]]

\* LAPACKE_dgbtrs on the factorized block and the host copy b_host of the
\* right-hand side: [info, b_host]; a call reporting an error leaves b_host
\* as it was
LAPACKE_dgbtrs(blk, b_host, nc, transpose) ==
    [info   |-> blk.info,
     b_host |-> IF blk.info # 0 THEN b_host
                ELSE ExactSolve(IF transpose THEN Transpose(blk.a, blk.size, blk.size)
                                             ELSE blk.a,
                                blk.size, b_host, nc)]

\* solve of a sub-block copying b_host back whatever LAPACKE_dgbtrs reported
Block_solve_unchecked(blk, rhs, nc, transpose) ==
    IF ~blk.factorized
    THEN [ok |-> FALSE, x |-> rhs]
    ELSE [ok |-> TRUE, x |-> LAPACKE_dgbtrs(blk, rhs, nc, transpose).b_host]

\* solve of a sub-block: rhs (size x nc) is copied to b_host, LAPACKE_dgbtrs
\* solves a*x = b_host (a^t*x = b_host when transpose) in b_host, which is
\* copied back into rhs unless info != 0, when std::runtime_error is thrown
Block_solve(blk, rhs, nc, transpose) ==
    IF Is2x2(blk)
    THEN SolutionOf(solve(blk, rhs, blk.m_size, nc, transpose, "default"))
    ELSE IF ~blk.factorized
    THEN [ok |-> FALSE, x |-> rhs]
    ELSE After(LAPACKE_dgbtrs(blk, rhs, nc, transpose),
               LAMBDA r : IF r.info # 0 THEN [ok |-> FALSE, x |-> rhs]
                          ELSE [ok |-> TRUE, x |-> r.b_host])

(***************************************************************************)
(* SplinesLinearProblem (abstract parent)                                  *)
(***************************************************************************)
size(self) == self.m_size

\* an implementation asking for fewer rows than the matrix has
impl_required_number_of_rhs_rows_short(self) == self.m_size - 1

impl_required_number_of_rhs_rows(self) == self.m_size

\* the number of rows, or -1 when the assertion nrows >= size() fails
required_number_of_rhs_rows(self) ==
    LET nrows == impl_required_number_of_rhs_rows(self)
    IN  IF nrows >= size(self) THEN nrows ELSE -1

(***************************************************************************)
(* SplinesLinearProblem2x2Blocks                                           *)
(*                                                                         *)
(*     A = |   Q    | gamma |                                              *)
(*         | lambda | delta |                                              *)
(*                                                                         *)
(* An object is a record of its fields; `status` is "ok", "aborted" (an    *)
(* assertion failed) or "failed" (an exception left the call); `trace`     *)
(* lists the calls made on the two sub-blocks and the dense updates, each  *)
(* with the callee's factorized flag at the time of the call.              *)
(***************************************************************************)
Call(callee, op, fact) == [callee |-> callee, op |-> op, factorized |-> fact]

\* Coo(): the empty COO storage
Coo0 == [m_nrows |-> 0, m_ncols |-> 0, nz |-> << >>]

\* the constructor with the extents of the top-right block exchanged
SplinesLinearProblem2x2Blocks_exchanged(mat_size, top_left_block) ==
    [m_size                  |-> mat_size,
     m_top_left_block        |-> top_left_block,
     m_top_right_block       |-> ZeroMat(mat_size - Block_size(top_left_block), Block_size(top_left_block)),
     m_top_right_block_coo   |-> Coo0,
     m_bottom_left_block     |-> ZeroMat(mat_size - Block_size(top_left_block), Block_size(top_left_block)),
     m_bottom_left_block_coo |-> Coo0,
     m_bottom_right_block    |-> NewBlock(mat_size - Block_size(top_left_block)),
     status                  |-> "ok",
     trace                   |-> << >>]

SplinesLinearProblem2x2Blocks(mat_size, top_left_block) ==
    [m_size                  |-> mat_size,
     m_top_left_block        |-> top_left_block,
     m_top_right_block       |-> ZeroMat(Block_size(top_left_block), mat_size - Block_size(top_left_block)),
     m_top_right_block_coo   |-> Coo0,
     m_bottom_left_block     |-> ZeroMat(mat_size - Block_size(top_left_block), Block_size(top_left_block)),
     m_bottom_left_block_coo |-> Coo0,
     m_bottom_right_block    |-> NewBlock(mat_size - Block_size(top_left_block)),
     status                  |-> "ok",
     trace                   |-> << >>]

\* get_element: [status, val]
get_element(self, i, j) ==
    LET nq == Block_size(self.m_top_left_block)
    IN  IF ~(i < size(self) /\ j < size(self))
        THEN [status |-> "aborted", val |-> Zero]
        ELSE IF i < nq /\ j < nq
        THEN LET r == Block_get_element(self.m_top_left_block, i, j)
             IN  [status |-> IF r.ok THEN "ok" ELSE "aborted", val |-> r.val]
        ELSE IF i >= nq /\ j >= nq
        THEN LET r == Block_get_element(self.m_bottom_right_block, i - nq, j - nq)
             IN  [status |-> IF r.ok THEN "ok" ELSE "aborted", val |-> r.val]
        ELSE IF j >= nq
        THEN [status |-> "ok", val |-> self.m_top_right_block[i][j - nq]]
        ELSE [status |-> "ok", val |-> self.m_bottom_left_block[i - nq][j]]

\* set_element storing an entry of the top-right block in the bottom-left
\* block as well
set_element_mirrored(self, i, j, aij) ==
    LET nq == Block_size(self.m_top_left_block)
    IN  IF ~(i < size(self) /\ j < size(self))
        THEN [self EXCEPT !.status = "aborted"]
        ELSE IF i < nq /\ j < nq
        THEN LET r == Block_set_element(self.m_top_left_block, i, j, aij)
             IN  [self EXCEPT !.m_top_left_block = r.blk,
                              !.status = IF r.ok THEN "ok" ELSE "aborted"]
        ELSE IF i >= nq /\ j >= nq
        THEN LET r == Block_set_element(self.m_bottom_right_block, i - nq, j - nq, aij)
             IN  [self EXCEPT !.m_bottom_right_block = r.blk,
                              !.status = IF r.ok THEN "ok" ELSE "aborted"]
        ELSE IF j >= nq
        THEN [self EXCEPT !.m_top_right_block[i][j - nq] = aij,
                          !.m_bottom_left_block[j - nq][i] = aij]
        ELSE [self EXCEPT !.m_bottom_left_block[i - nq][j] = aij]

\* set_element: the object after the call
set_element(self, i, j, aij) ==
    LET nq == Block_size(self.m_top_left_block)
    IN  IF ~(i < size(self) /\ j < size(self))
        THEN [self EXCEPT !.status = "aborted"]
        ELSE IF i < nq /\ j < nq
        THEN LET r == Block_set_element(self.m_top_left_block, i, j, aij)
             IN  [self EXCEPT !.m_top_left_block = r.blk,
                              !.status = IF r.ok THEN "ok" ELSE "aborted"]
        ELSE IF i >= nq /\ j >= nq
        THEN LET r == Block_set_element(self.m_bottom_right_block, i - nq, j - nq, aij)
             IN  [self EXCEPT !.m_bottom_right_block = r.blk,
                              !.status = IF r.ok THEN "ok" ELSE "aborted"]
        ELSE IF j >= nq
        THEN [self EXCEPT !.m_top_right_block[i][j - nq] = aij]
        ELSE [self EXCEPT !.m_bottom_left_block[i - nq][j] = aij]

RAbs(x) == <<Abs(x[1]), x[2]>>

\* the default tolerance of dense2coo, 1e-14: a mark, since it is below the
\* magnitude of every nonzero value that the model's arithmetic can hold
Epsilon == <<1, 0>>

\* the filter of dense2coo taken strictly
above_tol_strict(aij, tol) == IF tol = Epsilon THEN aij # Zero ELSE RLt(tol, RAbs(aij))

\* Kokkos::abs(aij) >= tol
above_tol(aij, tol) == IF tol = Epsilon THEN aij # Zero ELSE RLe(tol, RAbs(aij))

RECURSIVE dense2coo_from(_, _, _, _, _)
\* the entries of dense_matrix from flat index p on, row-major, those below tol removed
dense2coo_from(dense_matrix, nr, nc, tol, p) ==
    IF p >= nr * nc THEN << >>
    ELSE LET i == p \div nc
             j == p % nc
             aij == dense_matrix[i][j]
             rest == dense2coo_from(dense_matrix, nr, nc, tol, p + 1)
         IN  IF above_tol(aij, tol)
             THEN <<[row |-> i, col |-> j, val |-> aij]>> \o rest
             ELSE rest

\* dense2coo(dense_matrix, tol) on a view of extents nr x nc
dense2coo_tol(dense_matrix, nr, nc, tol) ==
    [m_nrows |-> nr, m_ncols |-> nc, nz |-> dense2coo_from(dense_matrix, nr, nc, tol, 0)]

\* dense2coo(dense_matrix) with the default tolerance
dense2coo(dense_matrix, nr, nc) == dense2coo_tol(dense_matrix, nr, nc, Epsilon)

\* Coo::nnz(); Coo::nrows() and Coo::ncols() are the fields m_nrows, m_ncols
nnz(coo) == Len(coo.nz)

\* run step f on the object unless an earlier step aborted or failed
Then(self, f(_)) == IF self.status = "ok" THEN f(self) ELSE self

Log(self, callee, op, fact) == [self EXCEPT !.trace = Append(@, Call(callee, op, fact))]

\* the work item (i, j) of compute_schur_complement: it writes its own entry
compute_schur_complement_item(self, i, j) ==
    LET nq == Block_size(self.m_top_left_block)
        val == RSum(LAMBDA l : RMul(self.m_bottom_left_block[i][l],
                                    self.m_top_right_block[l][j]), 0, nq)
        g  == Block_get_element(self.m_bottom_right_block, i, j)
        w  == Block_set_element(self.m_bottom_right_block, i, j, RSub(g.val, val))
        s1 == Log(Log(self, "bottom_right", "get_element", self.m_bottom_right_block.factorized),
                  "bottom_right", "set_element", self.m_bottom_right_block.factorized)
    IN  IF ~(g.ok /\ w.ok) THEN [s1 EXCEPT !.status = "aborted"]
        ELSE [s1 EXCEPT !.m_bottom_right_block = w.blk]

RECURSIVE compute_schur_complement_from(_, _)
\* work items (i, j) = (p \div k, p % k) from p on
compute_schur_complement_from(self, p) ==
    IF p >= self.m_bottom_right_block.size * self.m_bottom_right_block.size
       \/ self.status # "ok"
    THEN self
    ELSE compute_schur_complement_from(
             compute_schur_complement_item(self, p \div self.m_bottom_right_block.size,
                                           p % self.m_bottom_right_block.size),
             p + 1)

\* Compute the Schur complement delta - lambda*Q^-1*gamma.
compute_schur_complement(self) == compute_schur_complement_from(self, 0)

\* setup_solver, step 1: m_top_left_block->setup_solver()
setup_top_left(self) ==
    After(Block_setup_solver(self.m_top_left_block),
          LAMBDA r : [Log(self, "top_left", "setup_solver",
                          IsFactorized(self.m_top_left_block))
                         EXCEPT !.m_top_left_block = r.blk,
                                !.status = IF r.ok THEN "ok" ELSE "failed"])

\* setup_solver, step 2: Q^-1*gamma in the top-right block, and its COO copy
solve_top_right(self) ==
    After(Block_solve(self.m_top_left_block, self.m_top_right_block,
                      self.m_size - Block_size(self.m_top_left_block), FALSE),
          LAMBDA r : [Log(self, "top_left", "solve", IsFactorized(self.m_top_left_block))
                         EXCEPT !.m_top_right_block = r.x,
                                !.m_top_right_block_coo =
                                    dense2coo(r.x, Block_size(self.m_top_left_block),
                                              self.m_size - Block_size(self.m_top_left_block)),
                                !.status = IF r.ok THEN "ok" ELSE "failed"])

\* setup_solver, step 3: lambda pushed on device, and its COO copy
push_bottom_left(self) ==
    LET nq == Block_size(self.m_top_left_block)
        k  == self.m_size - nq
    IN  [self EXCEPT !.m_bottom_left_block_coo = dense2coo(self.m_bottom_left_block, k, nq)]

\* setup_solver, step 5: m_bottom_right_block->setup_solver()
setup_bottom_right(self) ==
    After(Block_setup_solver(self.m_bottom_right_block),
          LAMBDA r : [Log(self, "bottom_right", "setup_solver",
                          self.m_bottom_right_block.factorized)
                         EXCEPT !.m_bottom_right_block = r.blk,
                                !.status = IF r.ok THEN "ok" ELSE "failed"])

\* setup_solver computing the Schur complement before Q^-1*gamma is known
setup_solver_schur_first(self) ==
    Then(Then(Then(Then(setup_top_left([self EXCEPT !.trace = << >>]),
                        push_bottom_left),
                   compute_schur_complement),
              solve_top_right),
         setup_bottom_right)

\* setup_solver: block-LU factorization by the Schur complement method
setup_solver(self) ==
    Then(Then(Then(Then(setup_top_left([self EXCEPT !.trace = << >>]),
                        solve_top_right),
                   push_bottom_left),
              compute_schur_complement),
         setup_bottom_right)


\* KokkosBlas::gemm(transA, "N", alpha, A, B, beta, C): C <- alpha*op(A)*B + beta*C
\* with A stored as ar x ac and B, C having nc columns
gemm(transA, alpha, A, ar, ac, B, nc, beta, C) ==
    LET opA  == IF transA = "T" THEN Transpose(A, ar, ac) ELSE A
        rows == IF transA = "T" THEN ac ELSE ar
        mid  == IF transA = "T" THEN ar ELSE ac
        AB   == MatMul(opA, B, rows, mid, nc)
    IN  Mat(rows, nc, LAMBDA i, j : RAdd(RMul(alpha, AB[i][j]), RMul(beta, C[i][j])))

RECURSIVE spdm_column_shared(_, _, _, _, _, _)
\* work item j accumulating into column 0 of y
spdm_column_shared(LinOp, x, y, transpose, j, nz_idx) ==
    IF nz_idx > Len(LinOp.nz) THEN y
    ELSE LET e == LinOp.nz[nz_idx]
             i == e.row
             k == e.col
         IN  spdm_column_shared(LinOp, x,
                 IF ~transpose
                 THEN [y EXCEPT ![i][0] = RSub(@, RMul(e.val, x[k][j]))]
                 ELSE [y EXCEPT ![k][0] = RSub(@, RMul(e.val, x[i][j]))],
                 transpose, j, nz_idx + 1)

RECURSIVE spdm_column(_, _, _, _, _, _)
\* column j of spdm_minus1_1: the loop over the non-zeros from nz_idx on
spdm_column(LinOp, x, y, transpose, j, nz_idx) ==
    IF nz_idx > Len(LinOp.nz) THEN y
    ELSE LET e == LinOp.nz[nz_idx]
             i == e.row
             k == e.col
         IN  spdm_column(LinOp, x,
                 IF ~transpose
                 THEN [y EXCEPT ![i][j] = RSub(@, RMul(e.val, x[k][j]))]
                 ELSE [y EXCEPT ![k][j] = RSub(@, RMul(e.val, x[i][j]))],
                 transpose, j, nz_idx + 1)

RECURSIVE spdm_columns(_, _, _, _, _, _)
spdm_columns(LinOp, x, y, transpose, j, nc) ==
    IF j >= nc THEN y
    ELSE spdm_columns(LinOp, x, spdm_column(LinOp, x, y, transpose, j, 1), transpose, j + 1, nc)

\* y <- y - LinOp*x or y <- y - LinOp^t*x with a sparse LinOp; xr, yr are the
\* row counts of x and y.  [ok, y]: ok is FALSE when an assertion fails.
spdm_minus1_1(LinOp, x, xr, y, yr, nc, transpose) ==
    IF ~(   ((~transpose /\ LinOp.m_nrows = yr) \/ (transpose /\ LinOp.m_ncols = yr))
         /\ ((~transpose /\ LinOp.m_ncols = xr) \/ (transpose /\ LinOp.m_nrows = xr)))
    THEN [ok |-> FALSE, y |-> y]
    ELSE [ok |-> TRUE, y |-> spdm_columns(LinOp, x, y, transpose, 0, nc)]

(***************************************************************************)
(* solve: a frame is the object together with the two sub-views b1, b2 of  *)
(* the right-hand side b (nc columns).                                     *)
(***************************************************************************)
ThenF(fr, f(_)) == IF fr.self.status = "ok" THEN f(fr) ELSE fr

LogF(fr, callee, op, fact) == [fr EXCEPT !.self = Log(@, callee, op, fact)]

\* m_top_left_block->solve(b1, transpose)
solve_top_left(fr) ==
    After(Block_solve(fr.self.m_top_left_block, fr.b1, fr.nc, fr.transpose),
          LAMBDA r : [LogF(fr, "top_left", "solve", IsFactorized(fr.self.m_top_left_block))
                         EXCEPT !.b1 = r.x,
                                !.self.status = IF r.ok THEN "ok" ELSE "failed"])

\* m_bottom_right_block->solve(b2, transpose)
solve_bottom_right(fr) ==
    After(Block_solve(fr.self.m_bottom_right_block, fr.b2, fr.nc, fr.transpose),
          LAMBDA r : [LogF(fr, "bottom_right", "solve", fr.self.m_bottom_right_block.factorized)
                         EXCEPT !.b2 = r.x,
                                !.self.status = IF r.ok THEN "ok" ELSE "failed"])

\* b2 <- b2 - lambda*b1 (gemm "N", or spdm with SPLINE_VERSION0)
minus_bottom_left_b1(fr) ==
    LET nq == Block_size(fr.self.m_top_left_block)
        k  == fr.self.m_size - nq
    IN  IF fr.version = "SPLINE_VERSION0"
        THEN After(spdm_minus1_1(fr.self.m_bottom_left_block_coo, fr.b1, nq, fr.b2, k, fr.nc, FALSE),
                   LAMBDA sp : [LogF(fr, "bottom_left", "N", FALSE)
                                   EXCEPT !.b2 = sp.y,
                                          !.self.status = IF sp.ok THEN "ok" ELSE "aborted"])
        ELSE [LogF(fr, "bottom_left", "N", FALSE)
                 EXCEPT !.b2 = gemm("N", Int2Rat(-1), fr.self.m_bottom_left_block, k, nq,
                                    fr.b1, fr.nc, One, fr.b2)]

\* b1 <- b1 + (Q^-1*gamma)*b2: the sign of the update lost
minus_top_right_b2_added(fr) ==
    LET nq == Block_size(fr.self.m_top_left_block)
        k  == fr.self.m_size - nq
        f1 == LogF(fr, "top_right", "N", FALSE)
    IN  [f1 EXCEPT !.b1 = gemm("N", One, fr.self.m_top_right_block, nq, k,
                                fr.b2, fr.nc, One, fr.b1)]

\* b1 <- b1 - (Q^-1*gamma)*b2
minus_top_right_b2(fr) ==
    LET nq == Block_size(fr.self.m_top_left_block)
        k  == fr.self.m_size - nq
    IN  IF fr.version = "SPLINE_VERSION0"
        THEN After(spdm_minus1_1(fr.self.m_top_right_block_coo, fr.b2, k, fr.b1, nq, fr.nc, FALSE),
                   LAMBDA sp : [LogF(fr, "top_right", "N", FALSE)
                                   EXCEPT !.b1 = sp.y,
                                          !.self.status = IF sp.ok THEN "ok" ELSE "aborted"])
        ELSE [LogF(fr, "top_right", "N", FALSE)
                 EXCEPT !.b1 = gemm("N", Int2Rat(-1), fr.self.m_top_right_block, nq, k,
                                    fr.b2, fr.nc, One, fr.b1)]

\* b2 <- b2 - (Q^-1*gamma)^t*b1
minus_top_right_tr_b1(fr) ==
    LET nq == Block_size(fr.self.m_top_left_block)
        k  == fr.self.m_size - nq
    IN  IF fr.version = "SPLINE_VERSION0"
        THEN After(spdm_minus1_1(fr.self.m_top_right_block_coo, fr.b1, nq, fr.b2, k, fr.nc, TRUE),
                   LAMBDA sp : [LogF(fr, "top_right", "T", FALSE)
                                   EXCEPT !.b2 = sp.y,
                                          !.self.status = IF sp.ok THEN "ok" ELSE "aborted"])
        ELSE [LogF(fr, "top_right", "T", FALSE)
                 EXCEPT !.b2 = gemm("T", Int2Rat(-1), fr.self.m_top_right_block, nq, k,
                                    fr.b1, fr.nc, One, fr.b2)]

\* b1 <- b1 - lambda^t*b2
minus_bottom_left_tr_b2(fr) ==
    LET nq == Block_size(fr.self.m_top_left_block)
        k  == fr.self.m_size - nq
    IN  IF fr.version = "SPLINE_VERSION0"
        THEN After(spdm_minus1_1(fr.self.m_bottom_left_block_coo, fr.b2, k, fr.b1, nq, fr.nc, TRUE),
                   LAMBDA sp : [LogF(fr, "bottom_left", "T", FALSE)
                                   EXCEPT !.b1 = sp.y,
                                          !.self.status = IF sp.ok THEN "ok" ELSE "aborted"])
        ELSE [LogF(fr, "bottom_left", "T", FALSE)
                 EXCEPT !.b1 = gemm("T", Int2Rat(-1), fr.self.m_bottom_left_block, k, nq,
                                    fr.b2, fr.nc, One, fr.b1)]

\* the non-transposed branch solving the bottom-right block on the b2 it was
\* given, before lambda*b1 is taken off
solve_direct_early_bottom_right(fr) ==
    ThenF(ThenF(ThenF(solve_top_left(fr), solve_bottom_right), minus_bottom_left_b1),
          minus_top_right_b2)

\* the non-transposed branch of solve
solve_direct(fr) ==
    ThenF(ThenF(ThenF(solve_top_left(fr), minus_bottom_left_b1), solve_bottom_right),
          minus_top_right_b2)

\* the transposed branch keeping the order of the non-transposed one
solve_transposed_in_direct_order(fr) ==
    ThenF(ThenF(ThenF(solve_top_left(fr), minus_bottom_left_tr_b2), solve_bottom_right),
          minus_top_right_tr_b1)

\* the transposed branch of solve
solve_transposed(fr) ==
    ThenF(ThenF(ThenF(minus_top_right_tr_b1(fr), solve_bottom_right), minus_bottom_left_tr_b2),
          solve_top_left)

\* the paths of solve that hand the whole of b, with the other three blocks,
\* to one call of the top-left block (kernel fusion)
FusedVersions == {"SPLINE_VERSION1", "SPLINE_VERSION2"}

\* the four steps run by the kernel-fusion overload of a band or dense
\* top-left block, on the dense blocks (SPLINE_VERSION1) or on their COO
\* storage (SPLINE_VERSION2)
fused_steps(fr) == IF fr.transpose THEN solve_transposed(fr) ELSE solve_direct(fr)

\* the kernel-fusion overloads of SplinesLinearProblem2x2Blocks, called when
\* the top-left block is itself a SplinesLinearProblem2x2Blocks: empty bodies
solve_fused_2x2(fr) == LogF(fr, "top_left", "solve_fused", IsFactorized(fr.self.m_top_left_block))

\* m_top_left_block->solve(top_right, bottom_left, bottom_right, piv, b, transpose)
solve_fused(fr) ==
    IF Is2x2(fr.self.m_top_left_block) THEN solve_fused_2x2(fr)
    ELSE fused_steps([fr EXCEPT !.version = IF fr.version = "SPLINE_VERSION1"
                                            THEN "default" ELSE "SPLINE_VERSION0"])

\* solve(b, transpose) on a view b of nrows x nc: [self, b] after the call;
\* b1 and b2 are sub-views of b, so b holds whatever the steps wrote
solve(self, b, nrows, nc, transpose, version) ==
    LET nq == Block_size(self.m_top_left_block)
        s0 == [self EXCEPT !.trace = << >>]
        fr == [self |-> s0, b1 |-> SubRows(b, 0, nq, nc), b2 |-> SubRows(b, nq, nrows, nc),
               nc |-> nc, transpose |-> transpose, version |-> version]
    IN  IF nrows # size(self)
        THEN [self |-> [s0 EXCEPT !.status = "aborted"], b |-> b]
        ELSE After(IF version \in FusedVersions THEN solve_fused(fr)
                   ELSE IF transpose THEN solve_transposed(fr) ELSE solve_direct(fr),
                   LAMBDA out :
                       [self |-> out.self,
                        b    |-> Mat(nrows, nc, LAMBDA i, j : IF i < nq THEN out.b1[i][j]
                                                               ELSE out.b2[i - nq][j])])


(***************************************************************************)
(* State of the linear-problem specification: one 2x2-blocks problem and   *)
(* the client that fills, factorizes and solves it.                        *)
(***************************************************************************)
VARIABLES
    matrix,          \* the SplinesLinearProblem2x2Blocks object
    call,            \* the last call of the client, with its arguments and result
    b,               \* the MultiRHS view passed to the last call, after the call
    assembled,       \* the dense matrix read by get_element when setup_solver began
    n_setup_solver,  \* number of setup_solver calls so far
    late_calls       \* number of get/set_element calls made after setup_solver

lpvars == <<matrix, call, b, assembled, n_setup_solver, late_calls>>

\* (size of the matrix, size of its top-left block)
Shapes == {<<3, 2>>, <<3, 1>>}

\* compile definitions selecting the path of solve (none: gemm)
Versions == {"default", "SPLINE_VERSION0"}

RhsViews(nrows, nc) == [0 .. nrows - 1 -> [0 .. nc - 1 -> {Int2Rat(v) : v \in 0 .. MaxRhs}]]

NoCall == [op |-> "none"]
NoView == << >>
\* no buffer of boundary derivatives on either side
NoDerivsIn == [xmin |-> [has_value |-> FALSE, front |-> 0, extent |-> 0, v |-> << >>],
               xmax |-> [has_value |-> FALSE, front |-> 0, extent |-> 0, v |-> << >>]]

\* the matrix as get_element reads it
Dense(self) == Mat(self.m_size, self.m_size, LAMBDA i, j : get_element(self, i, j).val)

\* sum of the (integer) entries of an unfactorized matrix
Weight(self) ==
    LET n == self.m_size
        D == Dense(self)
        RECURSIVE W(_)
        W(p) == IF p >= n * n THEN 0 ELSE D[p \div n][p % n][1] + W(p + 1)
    IN  W(0)

LPInit ==
    /\ \E sh \in Shapes : matrix = SplinesLinearProblem2x2Blocks(sh[1], NewBlock(sh[2]))
    /\ call = NoCall
    /\ b = NoView
    /\ assembled = << >>
    /\ n_setup_solver = 0
    /\ late_calls = 0

Running == matrix.status = "ok"

\* the client fills the matrix
SetElement(i, j, aij) ==
    /\ Running
    /\ n_setup_solver = 0
    /\ matrix' = set_element(matrix, i, j, aij)
    /\ Weight(matrix') <= MaxWeight
    /\ call' = [op |-> "set_element", i |-> i, j |-> j, aij |-> aij]
    /\ b' = NoView
    /\ UNCHANGED <<assembled, n_setup_solver, late_calls>>

\* the client reads the matrix back
GetElement(i, j) ==
    /\ Running
    /\ n_setup_solver = 0
    /\ LET r == get_element(matrix, i, j)
       IN  /\ matrix' = [matrix EXCEPT !.status = r.status]
           /\ call' = [op |-> "get_element", i |-> i, j |-> j, ret |-> r.val]
    /\ b' = NoView
    /\ UNCHANGED <<assembled, n_setup_solver, late_calls>>

\* the client calls set_element although setup_solver has been called
LateSetElement(i, j, aij) ==
    /\ Running
    /\ n_setup_solver > 0
    /\ late_calls < MaxLateCalls
    /\ matrix' = set_element(matrix, i, j, aij)
    /\ call' = [op |-> "set_element", i |-> i, j |-> j, aij |-> aij]
    /\ b' = NoView
    /\ late_calls' = late_calls + 1
    /\ UNCHANGED <<assembled, n_setup_solver>>

\* the client calls get_element although setup_solver has been called
LateGetElement(i, j) ==
    /\ Running
    /\ n_setup_solver > 0
    /\ late_calls < MaxLateCalls
    /\ LET r == get_element(matrix, i, j)
       IN  /\ matrix' = [matrix EXCEPT !.status = r.status]
           /\ call' = [op |-> "get_element", i |-> i, j |-> j, ret |-> r.val]
    /\ b' = NoView
    /\ late_calls' = late_calls + 1
    /\ UNCHANGED <<assembled, n_setup_solver>>

SetupSolver ==
    /\ Running
    /\ n_setup_solver = 0
    /\ matrix' = setup_solver(matrix)
    /\ assembled' = Dense(matrix)
    /\ n_setup_solver' = n_setup_solver + 1
    /\ call' = [op |-> "setup_solver"]
    /\ b' = NoView
    /\ UNCHANGED late_calls

\* the client solves with a factorization it has not written into
Solve(rhs, nrows, nc, transpose, version) ==
    /\ Running
    /\ n_setup_solver > 0
    /\ late_calls = 0
    /\ LET r == solve(matrix, rhs, nrows, nc, transpose, version)
       IN  /\ matrix' = r.self
           /\ b' = r.b
    /\ call' = [op |-> "solve", b |-> rhs, nrows |-> nrows, nc |-> nc,
                transpose |-> transpose, version |-> version]
    /\ UNCHANGED <<assembled, n_setup_solver, late_calls>>

LPNext ==
    \/ \E i, j \in 0 .. matrix.m_size - 1, aij \in 0 .. MaxWeight :
           SetElement(i, j, Int2Rat(aij))
    \/ \E i, j \in 0 .. matrix.m_size - 1 : GetElement(i, j)
    \/ \E i, j \in 0 .. matrix.m_size - 1, aij \in {Zero, One} : LateSetElement(i, j, aij)
    \/ \E i, j \in 0 .. matrix.m_size - 1 : LateGetElement(i, j)
    \/ SetupSolver
    \/ \E nc \in 1 .. MaxCols, transpose \in BOOLEAN, version \in Versions :
           \E rhs \in RhsViews(required_number_of_rhs_rows(matrix), nc) :
               Solve(rhs, required_number_of_rhs_rows(matrix), nc, transpose, version)


(***************************************************************************)
(* NonUniformBSplines<Tag, D>::Impl                                        *)
(***************************************************************************)
\* content of memory that was allocated and not written yet
Garbage == <<-99, 1>>

RECURSIVE fill_provided_knots(_, _, _, _, _)
\* Fill the provided knots: the loop over the break points, from ii on
fill_provided_knots(knots, D, breaks, nbreaks, ii) ==
    IF ii >= nbreaks THEN knots
    ELSE fill_provided_knots([knots EXCEPT ![D + ii] = breaks[ii]], D, breaks, nbreaks, ii + 1)

RECURSIVE fill_extra_knots_descending(_, _, _, _, _, _, _)
\* the loop over the extra knots run from i = degree down to 1
fill_extra_knots_descending(knots, D, periodic, nc, rmin_, rmax_, i) ==
    IF i >= D + 1 THEN knots
    ELSE LET i_ == D + 1 - i
         IN  IF periodic
             THEN LET period == RSub(rmax_, rmin_)
                      k1 == [knots EXCEPT ![D - i_] = RSub(knots[D + nc - i_], period)]
                  IN  fill_extra_knots_descending(
                          [k1 EXCEPT ![D + nc + i_] = RAdd(k1[D + i_], period)],
                          D, periodic, nc, rmin_, rmax_, i + 1)
             ELSE fill_extra_knots_descending(
                      [knots EXCEPT ![D - i_] = rmin_, ![D + nc + i_] = rmax_],
                      D, periodic, nc, rmin_, rmax_, i + 1)

RECURSIVE fill_extra_knots(_, _, _, _, _, _, _)
\* Fill out the extra knots: the loop for (i = 1; i < degree() + 1; ++i), from
\* i on; nc is ncells() (npoints() - 1)
fill_extra_knots(knots, D, periodic, nc, rmin_, rmax_, i) ==
    IF i >= D + 1 THEN knots
    ELSE IF periodic
    THEN LET period == RSub(rmax_, rmin_)
             k1 == [knots EXCEPT ![D - i] = RSub(knots[D + nc - i], period)]
         IN  fill_extra_knots([k1 EXCEPT ![D + nc + i] = RAdd(k1[D + i], period)],
                              D, periodic, nc, rmin_, rmax_, i + 1)
    ELSE fill_extra_knots([knots EXCEPT ![D - i] = rmin_, ![D + nc + i] = rmax_],
                          D, periodic, nc, rmin_, rmax_, i + 1)

\* Impl(break_begin, break_end): the knots vector (0-based) from the break
\* points (a 0-based vector of nbreaks coordinates)
NonUniformBSplines(D, periodic, breaks, nbreaks) ==
    LET nknots == nbreaks + 2 * D
        knots  == fill_provided_knots(Vec(nknots, LAMBDA p : Zero), D, breaks, nbreaks, 0)
    IN  [degree |-> D, is_periodic |-> periodic, m_nknots |-> nknots,
         knots |-> fill_extra_knots(knots, D, periodic, nknots - 2 * D - 1,
                                    knots[D], knots[nbreaks + D - 1], 1)]

degree(bs) == bs.degree
npoints(bs) == bs.m_nknots - 2 * degree(bs)
ncells(bs) == npoints(bs) - 1
nbasis(bs) == ncells(bs) + (IF bs.is_periodic THEN 0 ELSE degree(bs))
bsplines_size(bs) == degree(bs) + ncells(bs)
get_knot(bs, knot_idx) == bs.knots[knot_idx + degree(bs)]
rmin(bs) == get_knot(bs, 0)
rmax(bs) == get_knot(bs, ncells(bs))

RECURSIVE find_cell_loop(_, _, _, _, _)
\* the binary search taking a cell as closed at both ends
find_cell_loop_closed(bs, x, low, high, icell) ==
    IF RLt(x, get_knot(bs, icell)) \/ RLt(get_knot(bs, icell + 1), x)
    THEN IF RLt(x, get_knot(bs, icell))
         THEN find_cell_loop(bs, x, low, icell, (low + icell) \div 2)
         ELSE find_cell_loop(bs, x, icell, high, (icell + high) \div 2)
    ELSE icell

\* the binary search of find_cell
find_cell_loop(bs, x, low, high, icell) ==
    IF RLt(x, get_knot(bs, icell)) \/ RLe(get_knot(bs, icell + 1), x)
    THEN IF RLt(x, get_knot(bs, icell))
         THEN find_cell_loop(bs, x, low, icell, (low + icell) \div 2)
         ELSE find_cell_loop(bs, x, icell, high, (icell + high) \div 2)
    ELSE icell

find_cell(bs, x) ==
    IF RLt(rmax(bs), x) THEN -1
    ELSE IF RLt(x, rmin(bs)) THEN -1
    ELSE IF x = rmin(bs) THEN 0
    ELSE IF x = rmax(bs) THEN ncells(bs) - 1
    ELSE find_cell_loop(bs, x, 0, ncells(bs), (0 + ncells(bs)) \div 2)

RECURSIVE eval_basis_inner(_, _, _, _, _, _)
\* the loop over r of eval_basis without the final store of `saved`
eval_basis_inner_unsaved(values, left, right, j, r, saved) ==
    IF r >= j + 1 THEN values
    ELSE LET temp == RDiv(values[r], RAdd(right[r], left[j - r]))
         IN  eval_basis_inner([values EXCEPT ![r] = RAdd(saved, RMul(right[r], temp))],
                              left, right, j, r + 1, RMul(left[j - r], temp))

\* the loop over r of eval_basis, and the store of values[j + 1] after it
eval_basis_inner(values, left, right, j, r, saved) ==
    IF r >= j + 1 THEN [values EXCEPT ![j + 1] = saved]
    ELSE LET temp == RDiv(values[r], RAdd(right[r], left[j - r]))
         IN  eval_basis_inner([values EXCEPT ![r] = RAdd(saved, RMul(right[r], temp))],
                              left, right, j, r + 1, RMul(left[j - r], temp))

RECURSIVE eval_basis_outer(_, _, _, _, _, _, _)
\* the loop over j of eval_basis
eval_basis_outer(bs, x, icell, values, left, right, j) ==
    IF j >= degree(bs) THEN values
    ELSE LET left2  == [left EXCEPT ![j] = RSub(x, get_knot(bs, icell - j))]
             right2 == [right EXCEPT ![j] = RSub(get_knot(bs, icell + j + 1), x)]
         IN  eval_basis_outer(bs, x, icell,
                              eval_basis_inner(values, left2, right2, j, 0, Zero),
                              left2, right2, j + 1)

\* eval_basis with its assertions compiled out
eval_basis_unasserted(bs, values, x) ==
    LET icell == find_cell(bs, x)
        work  == Vec(degree(bs), LAMBDA p : Garbage)
    IN  [ok |-> TRUE, jmin |-> icell,
         values |-> eval_basis_outer(bs, x, icell, [values EXCEPT ![0] = One],
                                     work, work, 0)]

\* eval_basis(values, x): [ok, jmin, values]; ok is FALSE when an assertion fails,
\* values is the output span (degree + 1 entries) after the call
eval_basis(bs, values, x) ==
    LET icell == find_cell(bs, x)
        work  == Vec(degree(bs), LAMBDA p : Garbage)
    IN  IF ~(RLe(rmin(bs), x) /\ RLe(x, rmax(bs)))
        THEN [ok |-> FALSE, jmin |-> -1, values |-> values]
        ELSE IF ~(   icell >= 0 /\ icell <= ncells(bs) - 1
                  /\ RLe(get_knot(bs, icell), x) /\ RLe(x, get_knot(bs, icell + 1)))
        THEN [ok |-> FALSE, jmin |-> icell, values |-> values]
        ELSE [ok |-> TRUE, jmin |-> icell,
              values |-> eval_basis_outer(bs, x, icell, [values EXCEPT ![0] = One],
                                          work, work, 0)]

\* an output span of degree + 1 values, not written yet
NewValues(bs) == Vec(degree(bs) + 1, LAMBDA p : Garbage)


(***************************************************************************)
(* NonUniformBSplines<Tag, D>::Impl: derivatives of the basis functions    *)
(***************************************************************************)
\* for (i = lo; i < hi; ++i) st = body(st, i)
For(lo, hi, st, body(_, _)) ==
    LET RECURSIVE F(_, _)
        F(i, s) == IF i >= hi THEN s ELSE After(body(s, i), LAMBDA t : F(i + 1, t))
    IN  After(st, LAMBDA s0 : F(lo, s0))

\* the assertions on x, on the size of the output and on the cell
\* find_cell returned, common to the three evaluation functions
CellAsserts(bs, x, icell) ==
    /\ icell >= 0
    /\ icell <= ncells(bs) - 1
    /\ RLe(get_knot(bs, icell), x)
    /\ RLe(x, get_knot(bs, icell + 1))

\* the loop over j of eval_deriv: basis functions of degree degree - 1
eval_deriv_lower(bs, x, icell, derivs) ==
    LET work == Vec(degree(bs), LAMBDA p : Garbage)
        st0  == [derivs |-> derivs, left |-> work, right |-> work]
        body(st, j) ==
            LET left2  == [st.left EXCEPT ![j] = RSub(x, get_knot(bs, icell - j))]
                right2 == [st.right EXCEPT ![j] = RSub(get_knot(bs, icell + j + 1), x)]
            IN  [derivs |-> eval_basis_inner(st.derivs, left2, right2, j, 0, Zero),
                 left |-> left2, right |-> right2]
    IN  For(0, degree(bs) - 1, st0, body).derivs

\* degree * derivs[j] / (knot(icell + j + 1) - knot(icell + j + 1 - degree))
eval_deriv_term(bs, icell, derivs, j) ==
    RDiv(RMul(Int2Rat(degree(bs)), derivs[j]),
         RSub(get_knot(bs, icell + j + 1), get_knot(bs, icell + j + 1 - degree(bs))))

\* the differences of the splines of degree degree - 1
eval_deriv_differences(bs, icell, derivs) ==
    LET saved0 == eval_deriv_term(bs, icell, derivs, 0)
        st0    == [derivs |-> [derivs EXCEPT ![0] = RNeg(saved0)], saved |-> saved0]
        body(st, j) ==
            LET saved2 == eval_deriv_term(bs, icell, st.derivs, j)
            IN  [derivs |-> [st.derivs EXCEPT ![j] = RSub(st.saved, saved2)],
                 saved |-> saved2]
        st1    == For(1, degree(bs), st0, body)
    IN  [st1.derivs EXCEPT ![degree(bs)] = st1.saved]

\* eval_deriv(derivs, x): [ok, jmin, values], as eval_basis
eval_deriv(bs, derivs, x) ==
    LET icell == find_cell(bs, x)
    IN  IF ~(RLe(rmin(bs), x) /\ RLe(x, rmax(bs)))
        THEN [ok |-> FALSE, jmin |-> -1, values |-> derivs]
        ELSE IF ~CellAsserts(bs, x, icell)
        THEN [ok |-> FALSE, jmin |-> icell, values |-> derivs]
        ELSE [ok |-> TRUE, jmin |-> icell,
              values |-> eval_deriv_differences(bs, icell,
                             eval_deriv_lower(bs, x, icell, [derivs EXCEPT ![0] = One]))]

\* the loop over r filling column j + 1 and row j + 1 of ndu
ndu_inner(ndu, left, right, j) ==
    LET body(st, r) ==
            LET inv  == RDiv(One, RAdd(right[r], left[j - r]))
                n1   == [st.ndu EXCEPT ![r][j + 1] = inv]
                temp == RMul(n1[j][r], n1[r][j + 1])
            IN  [ndu |-> [n1 EXCEPT ![j + 1][r] = RAdd(st.saved, RMul(right[r], temp))],
                 saved |-> RMul(left[j - r], temp)]
        st1 == For(0, j + 1, [ndu |-> ndu, saved |-> Zero], body)
    IN  [st1.ndu EXCEPT ![j + 1][j + 1] = st1.saved]

\* basis functions (upper triangle) and inverse knot differences (lower
\* triangle) of every degree up to degree
ndu_fill(bs, x, icell) ==
    LET work == Vec(degree(bs), LAMBDA p : Garbage)
        ndu0 == Mat(degree(bs) + 1, degree(bs) + 1, LAMBDA i, j : Garbage)
        body(st, j) ==
            LET left2  == [st.left EXCEPT ![j] = RSub(x, get_knot(bs, icell - j))]
                right2 == [st.right EXCEPT ![j] = RSub(get_knot(bs, icell + j + 1), x)]
            IN  [ndu |-> ndu_inner(st.ndu, left2, right2, j),
                 left |-> left2, right |-> right2]
    IN  For(0, degree(bs), [ndu |-> [ndu0 EXCEPT ![0][0] = One],
                            left |-> work, right |-> work], body).ndu

\* the body of the loop over k for basis function r: [a, s1, s2, derivs]
n_derivs_k(D, ndu, r, st, k) ==
    LET rk == r - k
        pk == D - k
        s1 == st.s1
        s2 == st.s2
        a1 == IF r >= k
              THEN [st.a EXCEPT ![0][s2] = RMul(st.a[0][s1], ndu[rk][pk + 1])]
              ELSE st.a
        d1 == IF r >= k THEN RMul(a1[0][s2], ndu[pk][rk]) ELSE Zero
        j1 == IF rk > -1 THEN 1 ELSE -rk
        j2 == IF r - 1 <= pk THEN k ELSE D - r + 1
        body(q, j) ==
            LET a2 == [q.a EXCEPT ![j][s2] =
                          RMul(RSub(q.a[j][s1], q.a[j - 1][s1]), ndu[rk + j][pk + 1])]
            IN  [a |-> a2, d |-> RAdd(q.d, RMul(a2[j][s2], ndu[pk][rk + j]))]
        q2 == For(j1, j2, [a |-> a1, d |-> d1], body)
        a3 == IF r <= pk
              THEN [q2.a EXCEPT ![k][s2] = RMul(RNeg(q2.a[k - 1][s1]), ndu[r][pk + 1])]
              ELSE q2.a
        d3 == IF r <= pk THEN RAdd(q2.d, RMul(a3[k][s2], ndu[pk][r])) ELSE q2.d
    IN  [a |-> a3, s1 |-> s2, s2 |-> s1, derivs |-> [st.derivs EXCEPT ![r][k] = d3]]

\* the loop over the basis functions r computing the derivatives 1 .. n
n_derivs_fill(D, ndu, derivs, n) ==
    LET a0 == Mat(D + 1, 2, LAMBDA i, j : Garbage)
        body(st, r) ==
            LET st1 == For(1, n + 1,
                           [a |-> [st.a EXCEPT ![0][0] = One], s1 |-> 0, s2 |-> 1,
                            derivs |-> st.derivs],
                           LAMBDA q, k : n_derivs_k(D, ndu, r, q, k))
            IN  [a |-> st1.a, derivs |-> st1.derivs]
    IN  For(0, D + 1, [a |-> a0, derivs |-> derivs], body).derivs

\* the multiplication of column k by degree! / (degree - k)!
n_derivs_scale(D, derivs, n) ==
    LET body(st, k) ==
            [derivs |-> For(0, D + 1, st.derivs,
                            LAMBDA dv, i : [dv EXCEPT ![i][k] = RMul(@, Int2Rat(st.r))]),
             r |-> st.r * (D - k)]
    IN  For(1, n + 1, [derivs |-> derivs, r |-> D], body).derivs

\* eval_basis_and_n_derivs(derivs, x, n): [ok, jmin, values], values the
\* (degree + 1) x (n + 1) output after the call
eval_basis_and_n_derivs(bs, derivs, x, n) ==
    LET icell == find_cell(bs, x)
        D     == degree(bs)
    IN  IF ~(   RLe(rmin(bs), x) /\ RLe(x, rmax(bs)) /\ n <= D
              /\ DOMAIN derivs = 0 .. D /\ DOMAIN derivs[0] = 0 .. n)
        THEN [ok |-> FALSE, jmin |-> -1, values |-> derivs]
        ELSE IF ~CellAsserts(bs, x, icell)
        THEN [ok |-> FALSE, jmin |-> icell, values |-> derivs]
        ELSE After(ndu_fill(bs, x, icell), LAMBDA ndu :
             After(For(0, D + 1, derivs, LAMBDA dv, j : [dv EXCEPT ![j][0] = ndu[D][j]]),
                   LAMBDA dv0 :
             After(n_derivs_fill(D, ndu, dv0, n), LAMBDA dv1 :
                   [ok |-> TRUE, jmin |-> icell,
                    values |-> n_derivs_scale(D, dv1, n)])))

\* an output of (degree + 1) x (n + 1) values, not written yet
NewDerivs(bs, n) == Mat(degree(bs) + 1, n + 1, LAMBDA i, j : Garbage)

(***************************************************************************)
(* The subscripts of the evaluation functions.  Each operator gives, for   *)
(* the cell icell, the indices the function passes to get_knot (knots),    *)
(* the subscripts of left and right (work), of the output span (out), and  *)
(* for eval_basis_and_n_derivs the subscript pairs of ndu and of a.        *)
(***************************************************************************)
\* eval_basis reading one knot further on each side
eval_basis_accesses_wide(bs, icell) ==
    LET D == degree(bs)
    IN  [knots |-> {icell, icell + 1}
                   \cup UNION {{icell - j, icell + j + 1} : j \in 0 .. D},
         work  |-> UNION {{j, r, j - r} : j \in 0 .. D - 1, r \in 0 .. D - 1},
         out   |-> {0} \cup UNION {{r, j + 1} : j \in 0 .. D - 1, r \in 0 .. D - 1}]

\* eval_basis: the assertions on the cell, then the loops over j and r <= j
eval_basis_accesses(bs, icell) ==
    LET D == degree(bs)
    IN  [knots |-> {icell, icell + 1}
                   \cup UNION {{icell - j, icell + j + 1} : j \in 0 .. D - 1},
         work  |-> UNION {UNION {{j, r, j - r} : r \in 0 .. j} : j \in 0 .. D - 1},
         out   |-> {0} \cup UNION {UNION {{r, j + 1} : r \in 0 .. j} : j \in 0 .. D - 1}]

\* eval_deriv: the loops over j < degree - 1 and r <= j, then the differences
\* over j < degree
eval_deriv_accesses(bs, icell) ==
    LET D == degree(bs)
    IN  [knots |-> {icell, icell + 1}
                   \cup UNION {{icell - j, icell + j + 1} : j \in 0 .. D - 2}
                   \cup {icell + 1, icell + 1 - D}
                   \cup UNION {{icell + j + 1, icell + j + 1 - D} : j \in 1 .. D - 1},
         work  |-> UNION {UNION {{j, r, j - r} : r \in 0 .. j} : j \in 0 .. D - 2},
         out   |-> {0} \cup UNION {UNION {{r, j + 1} : r \in 0 .. j} : j \in 0 .. D - 2}
                   \cup (1 .. D - 1) \cup {D}]

\* the subscripts of ndu and a in the body of the loop over k for basis
\* function r (s1 and s2 are exchanged at the end of every iteration)
n_derivs_k_accesses(D, r, k) ==
    LET rk == r - k
        pk == D - k
        s1 == (k - 1) % 2
        s2 == k % 2
        j1 == IF rk > -1 THEN 1 ELSE -rk
        j2 == IF r - 1 <= pk THEN k ELSE D - r + 1
    IN  [ndu |-> (IF r >= k THEN {<<rk, pk + 1>>, <<pk, rk>>} ELSE {})
                 \cup UNION {{<<rk + j, pk + 1>>, <<pk, rk + j>>} : j \in j1 .. j2 - 1}
                 \cup (IF r <= pk THEN {<<r, pk + 1>>, <<pk, r>>} ELSE {}),
         a   |-> (IF r >= k THEN {<<0, s2>>, <<0, s1>>} ELSE {})
                 \cup UNION {{<<j, s2>>, <<j, s1>>, <<j - 1, s1>>} : j \in j1 .. j2 - 1}
                 \cup (IF r <= pk THEN {<<k, s2>>, <<k - 1, s1>>} ELSE {})]

\* eval_basis_and_n_derivs: the fill of ndu, the copy of its last row, the
\* loops over r and k, and the scaling of the columns 1 .. n
eval_basis_and_n_derivs_accesses(bs, icell, n) ==
    LET D == degree(bs)
    IN  [knots |-> {icell, icell + 1}
                   \cup UNION {{icell - j, icell + j + 1} : j \in 0 .. D - 1},
         work  |-> UNION {UNION {{j, r, j - r} : r \in 0 .. j} : j \in 0 .. D - 1},
         ndu   |-> {<<0, 0>>}
                   \cup UNION {UNION {{<<r, j + 1>>, <<j, r>>, <<j + 1, r>>} : r \in 0 .. j}
                                   \cup {<<j + 1, j + 1>>} : j \in 0 .. D - 1}
                   \cup {<<D, j>> : j \in 0 .. D}
                   \cup UNION {n_derivs_k_accesses(D, r, k).ndu : r \in 0 .. D, k \in 1 .. n},
         a     |-> {<<0, 0>>}
                   \cup UNION {n_derivs_k_accesses(D, r, k).a : r \in 0 .. D, k \in 1 .. n},
         out   |-> {<<j, 0>> : j \in 0 .. D}
                   \cup {<<r, k>> : r \in 0 .. D, k \in 1 .. n}]

(***************************************************************************)
(* Interpolation points of the builder: one point per basis function, the  *)
(* Greville abscissae of the basis brought into the domain and ordered.    *)
(***************************************************************************)
RECURSIVE SortedSeq(_)
\* the elements of a finite set of rationals in increasing order
SortedSeq(S) ==
    IF S = {} THEN << >>
    ELSE LET m == CHOOSE u \in S : \A v \in S : RLe(u, v)
         IN  <<m>> \o SortedSeq(S \ {m})

GrevillePoints(bs) ==
    LET d == degree(bs)
        avg(i) == RDiv(RSum(LAMBDA q : get_knot(bs, i - d + 1 + q), 0, d), Int2Rat(d))
        wrap(x) == IF RLt(x, rmin(bs)) THEN RAdd(x, RSub(rmax(bs), rmin(bs))) ELSE x
        pts == SortedSeq({IF bs.is_periodic THEN wrap(avg(i)) ELSE avg(i) :
                          i \in 0 .. nbasis(bs) - 1})
    IN  Vec(Len(pts), LAMBDA r : pts[r + 1])

(***************************************************************************)
(* SplinesLinearProblemMaker                                               *)
(***************************************************************************)
Max(x, y) == IF x >= y THEN x ELSE y

\* a periodic band matrix: a 2x2-blocks problem whose top-left block is the
\* band and whose border holds the wrapped-around diagonals
make_new_periodic_band_matrix(n, kl, ku) ==
    SplinesLinearProblem2x2Blocks(n, NewBlock(n - Max(kl, ku)))

(***************************************************************************)
(* SplineBuilder (periodic boundary conditions)                            *)
(*                                                                         *)
(* A builder is a record [bsplines, points, start, m_offset, matrix,       *)
(* status, calls]: `points` is the interpolation sampling (0-based from    *)
(* the front of the interpolation domain, whose uid is `start`), `calls`   *)
(* the list of the calls made on the matrix.                               *)
(***************************************************************************)
\* ddc::BoundCond
BoundConds == {"PERIODIC", "HERMITE", "GREVILLE"}

\* number of equations defining a boundary condition
n_boundary_equations(bc, deg) == IF bc = "HERMITE" THEN deg \div 2 ELSE 0

s_odd(bld) == degree(bld.bsplines) % 2
s_nbc_xmin(bld) == n_boundary_equations(bld.BcLower, degree(bld.bsplines))
s_nbc_xmax(bld) == n_boundary_equations(bld.BcUpper, degree(bld.bsplines))

\* the positions, among the Greville abscissae, that a side with boundary
\* equations gives up: the boundary point itself stays an interpolation point
\* when the degree is odd (the equations are then derivatives of order >= 1)
GivenUp(n, deg) == IF deg % 2 = 1 THEN 1 .. n ELSE 0 .. n - 1

\* GrevilleInterpolationPoints<BSplines, BcLower, BcUpper>::get_sampling():
\* nbasis - s_nbc_xmin - s_nbc_xmax points
GrevilleSampling(bs, BcLower, BcUpper) ==
    LET g    == GrevillePoints(bs)
        nb   == nbasis(bs)
        lo   == GivenUp(n_boundary_equations(BcLower, degree(bs)), degree(bs))
        hi   == {nb - 1 - p : p \in GivenUp(n_boundary_equations(BcUpper, degree(bs)), degree(bs))}
        kept == SortedSeq({g[p] : p \in (0 .. nb - 1) \ (lo \cup hi)})
    IN  Vec(Len(kept), LAMBDA r : kept[r + 1])

RECURSIVE ipow(_, _)
\* ddc::detail::ipow: x to the power n >= 0
ipow(x, n) == IF n <= 0 THEN One ELSE RMul(x, ipow(x, n - 1))

modulo(x, y) == x % y

\* Calculate offset so that the matrix is diagonally dominant
compute_offset(bs, points, start) ==
    LET D  == degree(bs)
        ev == eval_basis(bs, NewValues(bs), points[D])
        mid == D \div 2
    IN  IF ~bs.is_periodic THEN 0
        ELSE IF D % 2 = 0
        THEN ev.jmin - start + D \div 2 - D
        ELSE ev.jmin - start
             + (IF RLt(ev.values[mid + 1], ev.values[mid]) THEN mid ELSE mid + 1) - D

MatrixCall(bld, op) == [bld EXCEPT !.calls = Append(@, op)]

\* row i of the matrix is written by part "lower", "interpolation" or "upper"
\* of build_matrix_system
MatrixRow(bld, part, i) == [bld EXCEPT !.rows = @ \cup {<<part, i>>}]

\* row i of the matrix receives basis derivatives of order `order`
DerivRow(bld, i, order) == [bld EXCEPT !.orders = @ \cup {<<i, order>>}]

\* the arguments (i, j) of a matrix->set_element(i, j, aij) of build_matrix_system
SetCall(bld, i, j) == [bld EXCEPT !.elements = Append(@, <<i, j>>)]

\* number of points of the interpolation domain
interpolation_domain_size(bld) == Cardinality(DOMAIN bld.points)

RECURSIVE build_row(_, _, _, _)
\* the loop over s storing the basis values without shifting by m_offset
build_row_unshifted(bld, ix, ev, s) ==
    IF s >= degree(bld.bsplines) + 1 THEN bld
    ELSE LET j  == modulo(ev.jmin + s, nbasis(bld.bsplines))
             m2 == set_element(bld.matrix, ix + s_nbc_xmin(bld), j, ev.values[s])
         IN  build_row(MatrixRow(SetCall([MatrixCall(bld, "set_element") EXCEPT !.matrix = m2],
                                         ix + s_nbc_xmin(bld), j),
                                 "interpolation", ix + s_nbc_xmin(bld)),
                       ix, ev, s + 1)

\* the loop over s storing past the last column in the last column
build_row_clamped(bld, ix, ev, s) ==
    IF s >= degree(bld.bsplines) + 1 THEN bld
    ELSE LET c  == ev.jmin - bld.m_offset + s
             j  == IF c < 0 THEN 0
                   ELSE IF c >= nbasis(bld.bsplines) THEN nbasis(bld.bsplines) - 1 ELSE c
             m2 == set_element(bld.matrix, ix + s_nbc_xmin(bld), j, ev.values[s])
         IN  build_row(MatrixRow(SetCall([MatrixCall(bld, "set_element") EXCEPT !.matrix = m2],
                                         ix + s_nbc_xmin(bld), j),
                                 "interpolation", ix + s_nbc_xmin(bld)),
                       ix, ev, s + 1)

\* the loop over s for interpolation point ix (a 0-based position in the domain)
build_row(bld, ix, ev, s) ==
    IF s >= degree(bld.bsplines) + 1 THEN bld
    ELSE LET j  == modulo(ev.jmin - bld.m_offset + s, nbasis(bld.bsplines))
             m2 == set_element(bld.matrix, ix + s_nbc_xmin(bld), j, ev.values[s])
         IN  build_row(MatrixRow(SetCall([MatrixCall(bld, "set_element") EXCEPT !.matrix = m2],
                                         ix + s_nbc_xmin(bld), j),
                                 "interpolation", ix + s_nbc_xmin(bld)),
                       ix, ev, s + 1)

RECURSIVE build_rows(_, _)
\* ddc::for_each over the interpolation domain, from point ix on
build_rows(bld, ix) ==
    IF ix >= interpolation_domain_size(bld) THEN bld
    ELSE build_rows(build_row(bld, ix,
                              eval_basis(bld.bsplines, NewValues(bld.bsplines),
                                         bld.points[ix]), 0),
                    ix + 1)

\* matrix->set_element(i, j, aij) made by the builder
builder_set_element(bld, i, j, aij) ==
    SetCall([MatrixCall(bld, "set_element") EXCEPT !.matrix = set_element(bld.matrix, i, j, aij)],
            i, j)

\* derivs(i, j) *= ipow(m_dx, j) for the derivatives of order j >= 1
normalize_derivs(bld, r) ==
    [ok |-> r.ok,
     values |-> IF r.ok
                THEN Mat(degree(bld.bsplines) + 1, degree(bld.bsplines) \div 2 + 1,
                         LAMBDA i, j : IF j >= 1 THEN RMul(r.values[i][j], ipow(bld.m_dx, j))
                                       ELSE r.values[i][j])
                ELSE r.values]

\* the derivatives 0 .. n of the basis functions at x, the derivative of
\* order j multiplied by dx^j: [ok, values]
normalized_derivs(bld, x, n) ==
    normalize_derivs(bld,
                     eval_basis_and_n_derivs(bld.bsplines,
                                             NewDerivs(bld.bsplines, degree(bld.bsplines) \div 2),
                                             x, n))

\* Hermite boundary conditions at xmin, the loops over i and j
hermite_rows_xmin(bld, derivs) ==
    For(0, s_nbc_xmin(bld), bld,
        LAMBDA b1, i :
            For(0, degree(bld.bsplines), b1,
                LAMBDA b2, j :
                    DerivRow(MatrixRow(builder_set_element(
                                           b2, i, j,
                                           derivs[j][s_nbc_xmin(bld) - i - 1 + s_odd(bld)]),
                                       "lower", i),
                             i, s_nbc_xmin(bld) - i - 1 + s_odd(bld))))

\* the loops at xmax with i0 one row lower
hermite_rows_xmax_early(bld, derivs) ==
    LET i0 == nbasis(bld.bsplines) - s_nbc_xmax(bld) - 1
        j0 == nbasis(bld.bsplines) - degree(bld.bsplines)
    IN  For(0, degree(bld.bsplines), bld,
            LAMBDA b1, j :
                For(0, s_nbc_xmax(bld), b1,
                    LAMBDA b2, i :
                        DerivRow(MatrixRow(builder_set_element(b2, i0 + i, j0 + j,
                                                               derivs[j + 1][i + s_odd(bld)]),
                                           "upper", i0 + i),
                                 i0 + i, i + s_odd(bld))))

\* Hermite boundary conditions at xmax, the loops over j and i
hermite_rows_xmax(bld, derivs) ==
    LET i0 == nbasis(bld.bsplines) - s_nbc_xmax(bld)
        j0 == nbasis(bld.bsplines) - degree(bld.bsplines)
    IN  For(0, degree(bld.bsplines), bld,
            LAMBDA b1, j :
                For(0, s_nbc_xmax(bld), b1,
                    LAMBDA b2, i :
                        DerivRow(MatrixRow(builder_set_element(b2, i0 + i, j0 + j,
                                                               derivs[j + 1][i + s_odd(bld)]),
                                           "upper", i0 + i),
                                 i0 + i, i + s_odd(bld))))

\* a failed assertion ends the program
Aborted(bld) == [bld EXCEPT !.status = "aborted"]

\* the part of build_matrix_system for one side with its derivatives
hermite_side(bld, dv, rows(_, _)) ==
    After(dv, LAMBDA d : IF d.ok THEN rows(bld, d.values) ELSE Aborted(bld))

build_matrix_system_xmin(bld) ==
    IF bld.BcLower = "HERMITE"
    THEN hermite_side(bld, normalized_derivs(bld, rmin(bld.bsplines), s_nbc_xmin(bld)),
                      hermite_rows_xmin)
    ELSE bld

build_matrix_system_xmax(bld) ==
    IF bld.status # "ok" \/ bld.BcUpper # "HERMITE" THEN bld
    ELSE hermite_side(bld, normalized_derivs(bld, rmax(bld.bsplines), s_nbc_xmax(bld)),
                      hermite_rows_xmax)

\* the interpolation rows, not reached when an assertion failed before them
build_matrix_system_points(bld) == IF bld.status # "ok" THEN bld ELSE build_rows(bld, 0)

build_matrix_system(bld) ==
    build_matrix_system_xmax(build_matrix_system_points(build_matrix_system_xmin(bld)))

\* the builder holding matrix m, its status following the status of m
WithMatrix(bld, m) == [bld EXCEPT !.matrix = m, !.status = m.status]

\* compute_block_sizes_uniform: [lower_block_size, upper_block_size], or the
\* std::runtime_error("ddc::BoundCond not handled") of a default label
compute_block_sizes_uniform(bld) ==
    LET D == degree(bld.bsplines)
    IN  [upper_block_size |-> CASE bld.BcLower = "PERIODIC" -> D \div 2
                                [] bld.BcLower = "HERMITE"  -> s_nbc_xmin(bld)
                                [] bld.BcLower = "GREVILLE" -> D - 1
                                [] OTHER -> -1,  \* never assigned: the default label throws
         lower_block_size |-> CASE bld.BcUpper = "PERIODIC" -> D \div 2
                                [] bld.BcUpper = "HERMITE"  -> s_nbc_xmax(bld)
                                [] bld.BcUpper = "GREVILLE" -> D - 1
                                [] OTHER -> -1,  \* never assigned: the default label throws
         threw |-> bld.BcLower \notin BoundConds \/ bld.BcUpper \notin BoundConds]

\* compute_block_sizes_non_uniform with default labels that fall back on the
\* sizes of GREVILLE
compute_block_sizes_non_uniform_lenient(bld) ==
    LET D == degree(bld.bsplines)
    IN  [upper_block_size |-> IF bld.BcLower = "HERMITE" THEN s_nbc_xmin(bld) + 1 ELSE D - 1,
         lower_block_size |-> IF bld.BcUpper = "HERMITE" THEN s_nbc_xmax(bld) + 1 ELSE D - 1,
         threw |-> FALSE]

\* compute_block_sizes_non_uniform: [lower_block_size, upper_block_size], or
\* the std::runtime_error("ddc::BoundCond not handled") of a default label
compute_block_sizes_non_uniform(bld) ==
    LET D == degree(bld.bsplines)
    IN  [upper_block_size |-> CASE bld.BcLower = "PERIODIC" -> D - 1
                                [] bld.BcLower = "HERMITE"  -> s_nbc_xmin(bld) + 1
                                [] bld.BcLower = "GREVILLE" -> D - 1
                                [] OTHER -> -1,  \* never assigned: the default label throws
         lower_block_size |-> CASE bld.BcUpper = "PERIODIC" -> D - 1
                                [] bld.BcUpper = "HERMITE"  -> s_nbc_xmax(bld) + 1
                                [] bld.BcUpper = "GREVILLE" -> D - 1
                                [] OTHER -> -1,  \* never assigned: the default label throws
         threw |-> bld.BcLower \notin BoundConds \/ bld.BcUpper \notin BoundConds]

\* a band matrix with dense blocks for the rows and columns of the boundary
\* conditions: the problem is solved as a whole by its main block
make_new_block_matrix_with_band_main_block(n, kl, ku, lower_block_size, upper_block_size) ==
    SplinesLinearProblem2x2Blocks(n, NewBlock(n))

\* allocate_matrix with Solver == LAPACK on non-uniform B-splines;
\* an aborted build_matrix_system never reaches setup_solver
allocate_matrix_setup(bld) ==
    IF bld.status # "ok" THEN bld
    ELSE IF bld.matrix.status # "ok" THEN WithMatrix(bld, bld.matrix)
    ELSE WithMatrix(MatrixCall(bld, "setup_solver"), setup_solver(bld.matrix))

allocate_matrix_make(bld, upper_band_width) ==
    WithMatrix(bld,
               IF bld.bsplines.is_periodic
               THEN make_new_periodic_band_matrix(nbasis(bld.bsplines),
                                                  upper_band_width, upper_band_width)
               ELSE make_new_block_matrix_with_band_main_block(
                        nbasis(bld.bsplines), upper_band_width, upper_band_width,
                        compute_block_sizes_non_uniform(bld).lower_block_size,
                        compute_block_sizes_non_uniform(bld).upper_block_size))

allocate_matrix(bld) ==
    allocate_matrix_setup(
        build_matrix_system(allocate_matrix_make(bld, degree(bld.bsplines) - 1)))

\* the constructor
SplineBuilder_members(bs, BcLower, BcUpper, points, start) ==
    [bsplines |-> bs, BcLower |-> BcLower, BcUpper |-> BcUpper,
     points |-> points, start |-> start,
     m_offset |-> compute_offset(bs, points, start),
     m_dx |-> RDiv(RSub(rmax(bs), rmin(bs)), Int2Rat(ncells(bs))),
     matrix |-> << >>, status |-> "ok", calls |-> << >>, rows |-> {},
     elements |-> << >>, orders |-> {}]

\* the body of the constructor (NonUniformBSplines::is_uniform() is false):
\* an exception of the block size computation leaves the constructor
SplineBuilder_body(bld) ==
    IF compute_block_sizes_non_uniform(bld).threw
    THEN [bld EXCEPT !.status = "failed"]
    ELSE allocate_matrix(bld)

SplineBuilder(bs, BcLower, BcUpper, points, start) ==
    SplineBuilder_body(SplineBuilder_members(bs, BcLower, BcUpper, points, start))


\* the duplication without its last loop
periodic_rows_duplicate_offset_only(spline, j, offset_proxy, nbasis_proxy, D) ==
    IF offset_proxy # 0
    THEN For(offset_proxy, D,
             For(0, offset_proxy, spline,
                 LAMBDA sp, i : [sp EXCEPT ![i][j] = sp[nbasis_proxy + i][j]]),
             LAMBDA sp, i : [sp EXCEPT ![nbasis_proxy + i][j] = sp[i][j]])
    ELSE spline

\* Duplicate the lower spline coefficients to the upper side (one batch column j)
periodic_rows_duplicate(spline, j, offset_proxy, nbasis_proxy, D) ==
    LET sp1 == IF offset_proxy # 0
               THEN For(offset_proxy, D,
                        For(0, offset_proxy, spline,
                            LAMBDA sp, i : [sp EXCEPT ![i][j] = sp[nbasis_proxy + i][j]]),
                        LAMBDA sp, i : [sp EXCEPT ![nbasis_proxy + i][j] = sp[i][j]])
               ELSE spline
    IN  For(0, D, sp1, LAMBDA sp, i : [sp EXCEPT ![nbasis_proxy + i][j] = sp[i][j]])

\* Fill spline with vals (to work in spline afterward and preserve vals)
fill_spline(bld, spline, vals, nvals, nbatch) ==
    For(0, nvals,
        For(s_nbc_xmin(bld), s_nbc_xmin(bld) + bld.m_offset, spline,
            LAMBDA sp, i : [sp EXCEPT ![i] = Vec(nbatch, LAMBDA j : Zero)]),
        LAMBDA sp, i : [sp EXCEPT ![s_nbc_xmin(bld) + bld.m_offset + i] = vals[i]])

\* spline_tr: an uninitialized buffer of `rows` rows, whose first nbasis rows
\* receive spline[m_offset + i]
spline_tr(bld, spline, rows, nbatch) ==
    For(0, nbasis(bld.bsplines), Mat(rows, nbatch, LAMBDA i, j : Garbage),
        LAMBDA t, i : [t EXCEPT ![i] = spline[i + bld.m_offset]])

\* Transpose back spline_tr into spline, then duplicate the periodic rows
operator_finish(bld, spline, r, nbatch) ==
    IF r.self.status # "ok"
    THEN [bld |-> WithMatrix(bld, r.self), spline |-> spline]
    ELSE [bld |-> WithMatrix(bld, r.self),
          spline |->
              For(0, IF bld.bsplines.is_periodic THEN nbatch ELSE 0,
                  For(0, nbasis(bld.bsplines), spline,
                      LAMBDA sp, i : [sp EXCEPT ![i + bld.m_offset] = r.b[i]]),
                  LAMBDA sp, j : periodic_rows_duplicate(sp, j, bld.m_offset,
                                                         nbasis(bld.bsplines),
                                                         degree(bld.bsplines)))]

\* operator() factorizing the matrix again before it solves
operator_solve_refactorizing(bld, spline, rows, nbatch, version) ==
    operator_finish(MatrixCall(MatrixCall(MatrixCall(bld, "setup_solver"),
                                          "required_number_of_rhs_rows"), "solve"),
                    spline,
                    solve(setup_solver(bld.matrix), spline_tr(bld, spline, rows, nbatch),
                          rows, nbatch, FALSE, version),
                    nbatch)

\* the solve of operator(): spline_tr is allocated, filled, solved in place
operator_solve(bld, spline, rows, nbatch, version) ==
    operator_finish(MatrixCall(MatrixCall(bld, "required_number_of_rhs_rows"), "solve"),
                    spline,
                    solve(bld.matrix, spline_tr(bld, spline, rows, nbatch), rows, nbatch,
                          FALSE, version),
                    nbatch)

\* An optional buffer of boundary derivatives is a record [has_value, front,
\* extent, v]: v[i][j] is the entry of derivative index i (front <= i <
\* front + extent) and batch column j.
NoDerivs == [has_value |-> FALSE, front |-> 0, extent |-> 0, v |-> << >>]

\* !derivs.has_value() || derivs->extent<deriv_type>() == 0
derivs_empty(derivs) == ~derivs.has_value \/ derivs.extent = 0

\* the assertions at the head of operator()
operator_asserts(bld, nvals, derivs_xmin, derivs_xmax) ==
    /\ nvals = nbasis(bld.bsplines) - s_nbc_xmin(bld) - s_nbc_xmax(bld)
    /\ (bld.BcLower = "HERMITE") # derivs_empty(derivs_xmin)
    /\ (bld.BcUpper = "HERMITE") # derivs_empty(derivs_xmax)
    /\ bld.BcLower = "HERMITE" => derivs_xmin.front = 1
    /\ bld.BcUpper = "HERMITE" => derivs_xmax.front = 1

\* Hermite boundary conditions at xmin: the loop over i = s_nbc_xmin .. 1 for
\* every batch column j
hermite_lower_coefficients(bld, spline, derivs_xmin, nbatch) ==
    For(0, nbatch, spline,
        LAMBDA sp1, j :
            For(0, s_nbc_xmin(bld), sp1,
                LAMBDA sp, k :
                    [sp EXCEPT ![k][j] =
                        RMul(derivs_xmin.v[s_nbc_xmin(bld) - k][j],
                             ipow(bld.m_dx, s_nbc_xmin(bld) - k + s_odd(bld) - 1))]))

\* Hermite boundary conditions at xmax: the loop over i = 0 .. s_nbc_xmax - 1
\* for every batch column j
hermite_upper_coefficients(bld, spline, derivs_xmax, nbatch) ==
    For(0, nbatch, spline,
        LAMBDA sp1, j :
            For(0, s_nbc_xmax(bld), sp1,
                LAMBDA sp, i :
                    [sp EXCEPT ![nbasis(bld.bsplines) - s_nbc_xmax(bld) - i][j] =
                        RMul(derivs_xmax.v[i + 1][j], ipow(bld.m_dx, i + s_odd(bld)))]))

\* operator() from the upper boundary conditions on, spline holding vals
operator_upper(bld, spline, derivs_xmax, nbatch, version) ==
    IF bld.BcUpper = "HERMITE" /\ derivs_xmax.extent # s_nbc_xmax(bld)
    THEN [bld |-> Aborted(bld), spline |-> spline]
    ELSE operator_solve(bld,
                        IF bld.BcUpper = "HERMITE"
                        THEN hermite_upper_coefficients(bld, spline, derivs_xmax, nbatch)
                        ELSE spline,
                        required_number_of_rhs_rows(bld.matrix), nbatch, version)

\* operator() from the lower boundary conditions on, taking a buffer of
\* derivatives at xmin of any extent
operator_lower_any_extent(bld, spline, vals, nvals, derivs_xmin, derivs_xmax, nbatch, version) ==
    operator_upper(bld,
                   fill_spline(bld,
                               IF bld.BcLower = "HERMITE"
                               THEN hermite_lower_coefficients(bld, spline, derivs_xmin, nbatch)
                               ELSE spline,
                               vals, nvals, nbatch),
                   derivs_xmax, nbatch, version)

\* operator() from the lower boundary conditions on
operator_lower(bld, spline, vals, nvals, derivs_xmin, derivs_xmax, nbatch, version) ==
    IF bld.BcLower = "HERMITE" /\ derivs_xmin.extent # s_nbc_xmin(bld)
    THEN [bld |-> Aborted(bld), spline |-> spline]
    ELSE operator_upper(bld,
                        fill_spline(bld,
                                    IF bld.BcLower = "HERMITE"
                                    THEN hermite_lower_coefficients(bld, spline,
                                                                    derivs_xmin, nbatch)
                                    ELSE spline,
                                    vals, nvals, nbatch),
                        derivs_xmax, nbatch, version)

\* operator()(spline, vals, derivs_xmin, derivs_xmax) on nbatch batch columns,
\* vals having nvals rows: [bld, spline] after the call
operator_call(bld, spline, vals, nvals, derivs_xmin, derivs_xmax, nbatch, version) ==
    IF ~operator_asserts(bld, nvals, derivs_xmin, derivs_xmax)
    THEN [bld |-> Aborted(bld), spline |-> spline]
    ELSE operator_lower(bld, spline, vals, nvals, derivs_xmin, derivs_xmax, nbatch, version)


\* the rows of the coefficient buffer operator() subscripts, in the order of
\* the code: the lower Hermite rows, the zero fill of m_offset rows, the copy
\* of the nvals values, the upper Hermite rows, the two transpositions and
\* the periodic duplication (whose loops over an unsigned or an int counter
\* run no iteration when m_offset is negative)
operator_spline_indices(bld, nvals) ==
    LET nb == nbasis(bld.bsplines)
        D  == degree(bld.bsplines)
        offset_proxy == bld.m_offset
    IN  (IF bld.BcLower = "HERMITE"
         THEN {s_nbc_xmin(bld) - i : i \in 1 .. s_nbc_xmin(bld)} ELSE {})
        \cup (s_nbc_xmin(bld) .. s_nbc_xmin(bld) + offset_proxy - 1)
        \cup {s_nbc_xmin(bld) + offset_proxy + i : i \in 0 .. nvals - 1}
        \cup (IF bld.BcUpper = "HERMITE"
              THEN {nb - s_nbc_xmax(bld) - i : i \in 0 .. s_nbc_xmax(bld) - 1} ELSE {})
        \cup {i + offset_proxy : i \in 0 .. nb - 1}
        \cup (IF bld.bsplines.is_periodic
              THEN (IF offset_proxy # 0
                    THEN UNION {{i, nb + i} : i \in 0 .. offset_proxy - 1}
                         \cup (IF offset_proxy >= 0
                               THEN UNION {{i, nb + i} : i \in offset_proxy .. D - 1}
                               ELSE {})
                    ELSE {})
                   \cup UNION {{i, nb + i} : i \in 0 .. D - 1}
              ELSE {})

\* the rows of the transposed working buffer spline_tr operator() subscripts
operator_tr_indices(bld) == 0 .. nbasis(bld.bsplines) - 1

\* every subscript of operator() designates an element of its buffer
operator_in_range(bld, nvals) ==
    /\ operator_spline_indices(bld, nvals) \subseteq 0 .. bsplines_size(bld.bsplines) - 1
    /\ operator_tr_indices(bld) \subseteq 0 .. required_number_of_rhs_rows(bld.matrix) - 1

\* the outcomes of operator(): those of operator_call when every subscript is
\* in range; a subscript out of range is caught by the assertion of the
\* buffer's access operator where assertions are compiled in, and is an
\* access outside the allocation elsewhere, after which any content of the
\* coefficient buffer is possible
operator_outcomes(bld, spline, vals, nvals, derivs_xmin, derivs_xmax, nbatch, version) ==
    IF /\ operator_asserts(bld, nvals, derivs_xmin, derivs_xmax)
       /\ bld.BcLower = "HERMITE" => derivs_xmin.extent = s_nbc_xmin(bld)
       /\ bld.BcUpper = "HERMITE" => derivs_xmax.extent = s_nbc_xmax(bld)
       /\ ~operator_in_range(bld, nvals)
    THEN {[bld |-> Aborted(bld), spline |-> spline]}
         \cup {[bld |-> [bld EXCEPT !.status = "undefined"], spline |-> sp] :
                   sp \in {spline,
                           Mat(bsplines_size(bld.bsplines), nbatch, LAMBDA i, j : Zero)}}
    ELSE {operator_call(bld, spline, vals, nvals, derivs_xmin, derivs_xmax, nbatch, version)}

(***************************************************************************)
(* State of the basis and builder specifications.                          *)
(***************************************************************************)
VARIABLES
    bsplines,    \* ddc::discrete_space<BSplines>(), the initialized basis
    basis_call,  \* the last eval_basis call: coordinate and result
    builder,     \* the SplineBuilder, once constructed
    spline,      \* the coefficient buffer of the caller
    vals,        \* the values buffer of the last operator() call
    n_operator,  \* number of operator() calls so far
    derivs_in    \* the derivatives buffers of the last operator() call

bvars == <<bsplines, basis_call, builder, spline, vals, n_operator, derivs_in>>

vars == <<matrix, call, b, assembled, n_setup_solver, late_calls,
          bsplines, basis_call, builder, spline, vals, n_operator, derivs_in>>

NoBasis == [degree |-> 0]
NoBuilder == [status |-> "none"]

\* strictly increasing break points: 0, then nc cells of widths 1 .. MaxWidth
RECURSIVE BreakSeqs(_)
BreakSeqs(nc) ==
    IF nc = 0 THEN {<<Zero>>}
    ELSE {Append(q, RAdd(q[Len(q)], Int2Rat(w))) : q \in BreakSeqs(nc - 1), w \in 1 .. MaxWidth}

Bases(periodicities) ==
    {NonUniformBSplines(D, per, [p \in 0 .. Len(q) - 1 |-> q[p + 1]], Len(q)) :
         D \in 1 .. MaxDegree, per \in periodicities,
         q \in UNION {BreakSeqs(nc) : nc \in 1 .. MaxCells}}

Coordinates(bs) ==
    {Rat(n, XDen) : n \in rmin(bs)[1] * XDen - 1 .. rmax(bs)[1] * XDen + 1}

LPIdle ==
    /\ matrix = [status |-> "none"]
    /\ call = NoCall
    /\ b = NoView
    /\ assembled = << >>
    /\ n_setup_solver = 0
    /\ late_calls = 0

BIdle ==
    /\ bsplines = NoBasis
    /\ basis_call = NoCall
    /\ builder = NoBuilder
    /\ spline = NoView
    /\ vals = NoView
    /\ n_operator = 0
    /\ derivs_in = NoDerivsIn

(***************************************************************************)
(* Spec: a client of one SplinesLinearProblem2x2Blocks.                    *)
(***************************************************************************)
Init == LPInit /\ BIdle

Next == LPNext /\ UNCHANGED bvars

Spec == Init /\ [][Next]_vars

(***************************************************************************)
(* FaultSpec: the client of Spec, with a LAPACK routine that reports an    *)
(* error in the solve of one of the two sub-blocks.                        *)
(***************************************************************************)
\* the sub-block whose LAPACKE_dgbtrs reports the status info
SubBlocks == {"top_left", "bottom_right"}

\* a status LAPACKE_dgbtrs reports for an argument it rejects
ErrorCode == -1

ReportingError(self, callee, info) ==
    IF callee = "top_left" THEN [self EXCEPT !.m_top_left_block.info = info]
    ELSE [self EXCEPT !.m_bottom_right_block.info = info]

\* the client solves; the solve of sub-block `callee` reports an error
FaultySolve(rhs, nrows, nc, transpose, version, callee) ==
    /\ Running
    /\ n_setup_solver > 0
    /\ late_calls = 0
    /\ LET r == solve(ReportingError(matrix, callee, ErrorCode), rhs, nrows, nc,
                      transpose, version)
       IN  /\ matrix' = r.self
           /\ b' = r.b
    /\ call' = [op |-> "solve", b |-> rhs, nrows |-> nrows, nc |-> nc,
                transpose |-> transpose, version |-> version, failing |-> callee]
    /\ UNCHANGED <<assembled, n_setup_solver, late_calls>>

FaultNext ==
    \/ \E i, j \in 0 .. matrix.m_size - 1, aij \in 0 .. MaxWeight :
           SetElement(i, j, Int2Rat(aij))
    \/ SetupSolver
    \/ \E nc \in 1 .. MaxCols, transpose \in BOOLEAN, version \in Versions,
          callee \in SubBlocks :
           \E rhs \in RhsViews(required_number_of_rhs_rows(matrix), nc) :
               FaultySolve(rhs, required_number_of_rhs_rows(matrix), nc, transpose,
                           version, callee)

FaultSpec == Init /\ [][FaultNext /\ UNCHANGED bvars]_vars

(***************************************************************************)
(* NestedSpec: the client of Spec on a problem whose top-left block is     *)
(* itself a SplinesLinearProblem2x2Blocks, solving on each of the four     *)
(* compile-time paths.                                                     *)
(***************************************************************************)
AllVersions == Versions \cup FusedVersions

\* the sizes <<outer, top-left, top-left of the top-left>>
NestedShapes == {<<3, 2, 1>>}

NestedInit ==
    /\ \E sh \in NestedShapes :
           matrix = SplinesLinearProblem2x2Blocks(
                        sh[1], SplinesLinearProblem2x2Blocks(sh[2], NewBlock(sh[3])))
    /\ call = NoCall
    /\ b = NoView
    /\ assembled = << >>
    /\ n_setup_solver = 0
    /\ late_calls = 0
    /\ BIdle

NestedNext ==
    \/ \E i, j \in 0 .. matrix.m_size - 1, aij \in 0 .. MaxWeight :
           SetElement(i, j, Int2Rat(aij))
    \/ SetupSolver
    \/ \E nc \in 1 .. MaxCols, transpose \in BOOLEAN, version \in AllVersions :
           \E rhs \in RhsViews(required_number_of_rhs_rows(matrix), nc) :
               Solve(rhs, required_number_of_rhs_rows(matrix), nc, transpose, version)

NestedSpec == NestedInit /\ [][NestedNext /\ UNCHANGED bvars]_vars

(***************************************************************************)
(* BasisSpec: one evaluation call (the functions are const and keep no     *)
(* state between calls) on every basis and coordinate of the bounds.       *)
(***************************************************************************)
EvalBasis(x) ==
    /\ bsplines # NoBasis
    /\ basis_call = NoCall
    /\ LET r == eval_basis(bsplines, NewValues(bsplines), x)
       IN  basis_call' = [op |-> "eval_basis", x |-> x, ok |-> r.ok, jmin |-> r.jmin,
                          values |-> r.values]
    /\ UNCHANGED <<bsplines, builder, spline, vals, n_operator, derivs_in>>
    /\ UNCHANGED lpvars

BasisInit ==
    /\ LPIdle
    /\ bsplines \in Bases(BOOLEAN)
    /\ basis_call = NoCall
    /\ builder = NoBuilder
    /\ spline = NoView
    /\ vals = NoView
    /\ n_operator = 0
    /\ derivs_in = NoDerivsIn

EvalDeriv(x) ==
    /\ bsplines # NoBasis
    /\ basis_call = NoCall
    /\ LET r == eval_deriv(bsplines, NewValues(bsplines), x)
       IN  basis_call' = [op |-> "eval_deriv", x |-> x, ok |-> r.ok, jmin |-> r.jmin,
                          values |-> r.values]
    /\ UNCHANGED <<bsplines, builder, spline, vals, n_operator, derivs_in>>
    /\ UNCHANGED lpvars

EvalBasisAndNDerivs(x, n) ==
    /\ bsplines # NoBasis
    /\ basis_call = NoCall
    /\ LET r == eval_basis_and_n_derivs(bsplines, NewDerivs(bsplines, n), x, n)
       IN  basis_call' = [op |-> "eval_basis_and_n_derivs", x |-> x, n |-> n,
                          ok |-> r.ok, jmin |-> r.jmin, values |-> r.values]
    /\ UNCHANGED <<bsplines, builder, spline, vals, n_operator, derivs_in>>
    /\ UNCHANGED lpvars

BasisNext ==
    \/ \E x \in Coordinates(bsplines) : EvalBasis(x)
    \/ \E x \in Coordinates(bsplines) : EvalDeriv(x)
    \/ \E x \in Coordinates(bsplines), n \in 0 .. degree(bsplines) :
           EvalBasisAndNDerivs(x, n)

BasisSpec == BasisInit /\ [][BasisNext]_vars

(***************************************************************************)
(* BuilderSpec: a periodic SplineBuilder is constructed on the Greville    *)
(* points of its basis and called on batches of values.                    *)
(***************************************************************************)
Construct ==
    /\ builder = NoBuilder
    /\ builder' = SplineBuilder(bsplines, "PERIODIC", "PERIODIC", GrevillePoints(bsplines), 0)
    /\ UNCHANGED <<bsplines, basis_call, spline, vals, n_operator, derivs_in>>
    /\ UNCHANGED lpvars

\* a fresh coefficient buffer over the full spline domain
NewSpline(bs, nbatch) == Mat(bsplines_size(bs), nbatch, LAMBDA i, j : Garbage)

Operator(values, nbatch, version) ==
    /\ builder # NoBuilder
    /\ builder.status = "ok"
    /\ n_operator < MaxOperatorCalls
    /\ LET r == operator_call(builder, NewSpline(bsplines, nbatch), values,
                              nbasis(bsplines), NoDerivs, NoDerivs, nbatch, version)
       IN  builder' = r.bld /\ spline' = r.spline
    /\ vals' = values
    /\ derivs_in' = NoDerivsIn
    /\ n_operator' = n_operator + 1
    /\ UNCHANGED <<bsplines, basis_call>>
    /\ UNCHANGED lpvars

EqualWidths(bs) ==
    \A c \in 0 .. ncells(bs) - 2 :
        RSub(get_knot(bs, c + 1), get_knot(bs, c))
            = RSub(get_knot(bs, c + 2), get_knot(bs, c + 1))

BuilderBases ==
    {bs \in Bases({TRUE}) :
         /\ nbasis(bs) > degree(bs)
         /\ degree(bs) <= MaxNonUniformDegree \/ EqualWidths(bs)}

BuilderInit ==
    /\ LPIdle
    /\ bsplines \in BuilderBases
    /\ basis_call = NoCall
    /\ builder = NoBuilder
    /\ spline = NoView
    /\ vals = NoView
    /\ n_operator = 0
    /\ derivs_in = NoDerivsIn

BuilderNext ==
    \/ Construct
    \/ \E nbatch \in 1 .. MaxCols, version \in Versions :
           \E values \in RhsViews(nbasis(bsplines), nbatch) :
               Operator(values, nbatch, version)

BuilderSpec == BuilderInit /\ [][BuilderNext]_vars

(***************************************************************************)
(* HermiteSpec: a SplineBuilder on a non-periodic basis, each side with    *)
(* HERMITE or GREVILLE boundary conditions, is constructed on its Greville *)
(* sampling and called once with values and boundary derivatives.          *)
(***************************************************************************)
\* the boundary conditions the static_assert of the class admits for a
\* non-periodic basis
NonPeriodicBoundConds == BoundConds \ {"PERIODIC"}

HermiteConstruct(BcLower, BcUpper) ==
    /\ builder = NoBuilder
    /\ builder' = SplineBuilder(bsplines, BcLower, BcUpper,
                                GrevilleSampling(bsplines, BcLower, BcUpper), 0)
    /\ UNCHANGED <<bsplines, basis_call, spline, vals, n_operator, derivs_in>>
    /\ UNCHANGED lpvars

\* the buffers of boundary derivatives a caller may pass to a side with n
\* boundary equations: none, or one of extent 0, n or n + 1 that starts at
\* derivative index 0 or 1
DerivsBuffers(n, nbatch) ==
    {NoDerivs} \cup
    {[has_value |-> TRUE, front |-> f, extent |-> e,
      v |-> [i \in f .. f + e - 1 |-> Vec(nbatch, LAMBDA j : Int2Rat(w + i))]] :
         f \in {0, 1}, e \in {0, n, n + 1}, w \in 0 .. MaxRhs}

\* the values buffers: a constant one and one growing along the points
ValuesBuffers(nvals, nbatch) ==
    {Mat(nvals, nbatch, LAMBDA i, j : Int2Rat(1 + g * i)) : g \in 0 .. MaxRhs}

HermiteOperator(values, nvals, dmin, dmax, nbatch, version) ==
    /\ builder # NoBuilder
    /\ builder.status = "ok"
    /\ n_operator < MaxHermiteCalls
    /\ LET r == operator_call(builder, NewSpline(bsplines, nbatch), values, nvals,
                              dmin, dmax, nbatch, version)
       IN  builder' = r.bld /\ spline' = r.spline
    /\ vals' = values
    /\ derivs_in' = [xmin |-> dmin, xmax |-> dmax]
    /\ n_operator' = n_operator + 1
    /\ UNCHANGED <<bsplines, basis_call>>
    /\ UNCHANGED lpvars

HermiteBases ==
    {NonUniformBSplines(D, FALSE, [p \in 0 .. Len(q) - 1 |-> q[p + 1]], Len(q)) :
         D \in 1 .. MaxHermiteDegree,
         q \in UNION {BreakSeqs(nc) : nc \in 1 .. MaxHermiteCells}}

HermiteInit ==
    /\ LPIdle
    /\ bsplines \in {bs \in HermiteBases :
                         /\ degree(bs) <= MaxDegree \/ ncells(bs) = 1
                         /\ degree(bs) <= MaxNonUniformDegree \/ EqualWidths(bs)}
    /\ basis_call = NoCall
    /\ builder = NoBuilder
    /\ spline = NoView
    /\ vals = NoView
    /\ n_operator = 0
    /\ derivs_in = NoDerivsIn

HermiteNext ==
    \/ \E BcLower \in NonPeriodicBoundConds, BcUpper \in NonPeriodicBoundConds :
           HermiteConstruct(BcLower, BcUpper)
    \/ /\ builder # NoBuilder
       /\ \E nbatch \in 1 .. MaxCols, version \in Versions :
           \E dmin \in DerivsBuffers(s_nbc_xmin(builder), nbatch),
              dmax \in DerivsBuffers(s_nbc_xmax(builder), nbatch),
              values \in ValuesBuffers(nbasis(bsplines) - s_nbc_xmin(builder)
                                           - s_nbc_xmax(builder), nbatch) :
               HermiteOperator(values,
                               nbasis(bsplines) - s_nbc_xmin(builder) - s_nbc_xmax(builder),
                               dmin, dmax, nbatch, version)

HermiteSpec == HermiteInit /\ [][HermiteNext]_vars

\* the knot that opens the support of the B-spline ix
get_first_support_knot(bs, ix) == bs.knots[ix]

\* the support of the B-spline ix taken one knot short
get_last_support_knot_short(bs, ix) == bs.knots[ix + degree(bs)]

\* the knot that closes the support of the B-spline ix
get_last_support_knot(bs, ix) == bs.knots[ix + degree(bs) + 1]

RECURSIVE integrals_first(_, _, _)
\* integrals: the loop over dom_bsplines, the first nbasis() B-splines, from ix
integrals_first(bs, int_vals, ix) ==
    IF ix >= nbasis(bs) THEN int_vals
    ELSE integrals_first(
             bs,
             [int_vals EXCEPT ![ix] = RMul(RSub(get_last_support_knot(bs, ix),
                                                get_first_support_knot(bs, ix)),
                                           Rat(1, degree(bs) + 1))],
             ix + 1)

\* integrals: the loop over dom_bsplines_wrap, the last degree() B-splines
integrals_wrap(bs, int_vals) ==
    [ix \in DOMAIN int_vals |->
        IF ix >= bsplines_size(bs) - degree(bs) THEN Zero ELSE int_vals[ix]]

\* integrals(int_vals) on an output of n entries
integrals(bs, int_vals, n) ==
    IF ~(IF bs.is_periodic THEN n = nbasis(bs) \/ n = bsplines_size(bs) ELSE n = nbasis(bs))
    THEN [status |-> "aborted", int_vals |-> int_vals]
    ELSE After(integrals_first(bs, int_vals, 0),
               LAMBDA v : [status |-> "ok",
                           int_vals |-> IF bs.is_periodic /\ n = bsplines_size(bs)
                                        THEN integrals_wrap(bs, v) ELSE v])

(***************************************************************************)
(* KnotSpec: NonUniformBSplines::Impl is constructed from break points;    *)
(* basis_call holds the arguments of the constructor.                      *)
(***************************************************************************)
\* the arguments: a degree, a periodicity, strictly increasing break points
ImplArguments ==
    {[op |-> "Impl", D |-> D, is_periodic |-> per,
      breaks |-> [p \in 0 .. Len(q) - 1 |-> q[p + 1]], nbreaks |-> Len(q)] :
         D \in 1 .. MaxKnotDegree, per \in BOOLEAN,
         q \in UNION {BreakSeqs(nc) : nc \in 1 .. MaxCells}}

KnotInit ==
    /\ LPIdle
    /\ bsplines = NoBasis
    /\ basis_call \in ImplArguments
    /\ builder = NoBuilder
    /\ spline = NoView
    /\ vals = NoView
    /\ n_operator = 0
    /\ derivs_in = NoDerivsIn

\* the constructor runs
Impl ==
    /\ bsplines = NoBasis
    /\ bsplines' = NonUniformBSplines(basis_call.D, basis_call.is_periodic,
                                      basis_call.breaks, basis_call.nbreaks)
    /\ UNCHANGED <<basis_call, builder, spline, vals, n_operator, derivs_in>>
    /\ UNCHANGED lpvars

\* integrals() is called once on an output of n entries not written before
Integrals(n) ==
    /\ bsplines # NoBasis
    /\ basis_call.op = "Impl"
    /\ LET r == integrals(bsplines, Vec(n, LAMBDA p : Garbage), n)
       IN  /\ basis_call' = [op |-> "integrals", size |-> n, status |-> r.status]
           /\ vals' = r.int_vals
    /\ UNCHANGED <<bsplines, builder, spline, n_operator, derivs_in>>
    /\ UNCHANGED lpvars

KnotNext ==
    \/ Impl
    \/ \E n \in 0 .. MaxCells + MaxKnotDegree + 1 : Integrals(n)

KnotSpec == KnotInit /\ [][KnotNext]_vars

(***************************************************************************)
(* SearchSpec: find_cell runs step by step on a basis whose break points   *)
(* are non-decreasing (a break point may be repeated) with rmin < rmax.    *)
(* basis_call holds the frame of the call: x, and in the loop low, high    *)
(* and icell.  The thread that entered the loop keeps running it.          *)
(***************************************************************************)
RECURSIVE NonDecreasingSeqs(_)
\* the sequences of nc + 1 break points from 0 with steps 0 .. MaxWidth
NonDecreasingSeqs(nc) ==
    IF nc = 0 THEN {<<Zero>>}
    ELSE {Append(q, RAdd(q[Len(q)], Int2Rat(w))) :
              q \in NonDecreasingSeqs(nc - 1), w \in 0 .. MaxWidth}

SearchBases ==
    {NonUniformBSplines(D, per, [p \in 0 .. Len(q) - 1 |-> q[p + 1]], Len(q)) :
         D \in 1 .. MaxNonUniformDegree, per \in BOOLEAN,
         q \in {s \in UNION {NonDecreasingSeqs(nc) : nc \in 1 .. MaxSearchCells} :
                    RLt(s[1], s[Len(s)])}}

SearchInit ==
    /\ LPIdle
    /\ bsplines \in SearchBases
    /\ basis_call = NoCall
    /\ builder = NoBuilder
    /\ spline = NoView
    /\ vals = NoView
    /\ n_operator = 0
    /\ derivs_in = NoDerivsIn

\* while (x < get_knot(icell) || x >= get_knot(icell + 1))
find_cell_continue(bs, x, icell) ==
    RLt(x, get_knot(bs, icell)) \/ RLe(get_knot(bs, icell + 1), x)

\* the loop body halving towards low on both branches
find_cell_body_low(bs, x, low, high, icell) ==
    IF RLt(x, get_knot(bs, icell))
    THEN [low |-> low, high |-> icell, icell |-> (low + icell) \div 2]
    ELSE [low |-> low, high |-> high, icell |-> (low + high) \div 2]

\* the loop body: high = icell or low = icell, then icell = (low + high) / 2
find_cell_body(bs, x, low, high, icell) ==
    IF RLt(x, get_knot(bs, icell))
    THEN [low |-> low, high |-> icell, icell |-> (low + icell) \div 2]
    ELSE [low |-> icell, high |-> high, icell |-> (icell + high) \div 2]

\* find_cell(x) up to the loop: the four early returns, or the
\* initialisation of low, high and icell
FindCellEnter(x) ==
    /\ basis_call = NoCall
    /\ basis_call' =
           IF RLt(rmax(bsplines), x) \/ RLt(x, rmin(bsplines))
           THEN [op |-> "find_cell", x |-> x, pc |-> "returned", ret |-> -1, iterations |-> 0]
           ELSE IF x = rmin(bsplines)
           THEN [op |-> "find_cell", x |-> x, pc |-> "returned", ret |-> 0, iterations |-> 0]
           ELSE IF x = rmax(bsplines)
           THEN [op |-> "find_cell", x |-> x, pc |-> "returned",
                 ret |-> ncells(bsplines) - 1, iterations |-> 0]
           ELSE [op |-> "find_cell", x |-> x, pc |-> "loop", low |-> 0,
                 high |-> ncells(bsplines), icell |-> (0 + ncells(bsplines)) \div 2,
                 iterations |-> 0]
    /\ UNCHANGED <<bsplines, builder, spline, vals, n_operator, derivs_in>>
    /\ UNCHANGED lpvars

\* one iteration of the loop
FindCellIterate ==
    /\ basis_call.op = "find_cell"
    /\ basis_call.pc = "loop"
    /\ find_cell_continue(bsplines, basis_call.x, basis_call.icell)
    /\ LET r == find_cell_body(bsplines, basis_call.x, basis_call.low, basis_call.high,
                               basis_call.icell)
       IN  basis_call' = [basis_call EXCEPT !.low = r.low, !.high = r.high,
                                            !.icell = r.icell,
                                            !.iterations = @ + 1]
    /\ UNCHANGED <<bsplines, builder, spline, vals, n_operator, derivs_in>>
    /\ UNCHANGED lpvars

\* the loop condition is false: return icell
FindCellReturn ==
    /\ basis_call.op = "find_cell"
    /\ basis_call.pc = "loop"
    /\ ~find_cell_continue(bsplines, basis_call.x, basis_call.icell)
    /\ basis_call' = [op |-> "find_cell", x |-> basis_call.x, pc |-> "returned",
                      ret |-> basis_call.icell, iterations |-> basis_call.iterations]
    /\ UNCHANGED <<bsplines, builder, spline, vals, n_operator, derivs_in>>
    /\ UNCHANGED lpvars

SearchNext ==
    \/ \E x \in Coordinates(bsplines) : FindCellEnter(x)
    \/ FindCellIterate
    \/ FindCellReturn

SearchSpec ==
    SearchInit /\ [][SearchNext]_vars /\ WF_vars(FindCellIterate \/ FindCellReturn)

(***************************************************************************)
(* ShapeSpec: a client that fills and reads back matrices of every size    *)
(* mat_size <= MaxMatSize on top-left blocks of every size <= mat_size,    *)
(* dense or themselves SplinesLinearProblem2x2Blocks.                      *)
(***************************************************************************)
\* the top-left blocks of size nq the client builds
TopLeftBlocks(nq) ==
    {NewBlock(nq)} \cup {SplinesLinearProblem2x2Blocks(nq, NewBlock(nq2)) : nq2 \in 0 .. nq}

ShapeInit ==
    /\ \E mat_size \in 0 .. MaxMatSize :
           \E nq \in 0 .. mat_size :
               \E top_left_block \in TopLeftBlocks(nq) :
                   matrix = SplinesLinearProblem2x2Blocks(mat_size, top_left_block)
    /\ call = NoCall
    /\ b = NoView
    /\ assembled = << >>
    /\ n_setup_solver = 0
    /\ late_calls = 0
    /\ BIdle

ShapeNext ==
    \/ \E i, j \in 0 .. matrix.m_size - 1, aij \in {Zero, One} :
           /\ SetElement(i, j, aij)
           /\ Weight(matrix') <= MaxShapeWeight
           /\ UNCHANGED bvars
    \/ \E i, j \in 0 .. matrix.m_size - 1 : GetElement(i, j) /\ UNCHANGED bvars

ShapeSpec == ShapeInit /\ [][ShapeNext]_vars

(***************************************************************************)
(* CooSpec: a client that fills a SplinesLinearProblem2x2Blocks and calls  *)
(* setup_solver, or calls dense2coo (a public member) on a dense view of   *)
(* its own with a tolerance of its own.                                    *)
(***************************************************************************)
\* the values of the dense views handed to dense2coo, and the tolerances
CooValues == {RNeg(One), Rat(-1, 2), Zero, Rat(1, 4), Rat(1, 2), One}
CooTolerances == {Epsilon, Rat(1, 2), One}

\* the dense views of nr x nc entries with at most MaxCooNonZeros entries
\* other than 0
CooViews(nr, nc) ==
    {M \in [0 .. nr - 1 -> [0 .. nc - 1 -> CooValues]] :
        Cardinality({p \in (0 .. nr - 1) \X (0 .. nc - 1) : M[p[1]][p[2]] # Zero})
            <= MaxCooNonZeros}

\* the client calls dense2coo(dense_matrix, tol)
Dense2Coo(dense_matrix, nr, nc, tol) ==
    /\ call = NoCall
    /\ call' = [op |-> "dense2coo", dense_matrix |-> dense_matrix, nr |-> nr, nc |-> nc,
                tol |-> tol, ret |-> dense2coo_tol(dense_matrix, nr, nc, tol)]
    /\ UNCHANGED <<matrix, b, assembled, n_setup_solver, late_calls>>

CooNext ==
    \/ \E i, j \in 0 .. matrix.m_size - 1, aij \in {Zero, One} :
           SetElement(i, j, aij)
    \/ SetupSolver
    \/ \E nr, nc \in 0 .. MaxCooExtent, tol \in CooTolerances :
           \E dense_matrix \in CooViews(nr, nc) : Dense2Coo(dense_matrix, nr, nc, tol)

CooSpec == Init /\ [][CooNext /\ UNCHANGED bvars]_vars

(***************************************************************************)
(* BoundCondSpec: the block sizes are computed, and a SplineBuilder on a   *)
(* non-periodic basis is constructed, for boundary conditions that may be  *)
(* values of ddc::BoundCond without an enumerator.                         *)
(***************************************************************************)
\* the values of ddc::BoundCond: the enumerators and a value without one
AnyBoundConds == BoundConds \cup {"UNSUPPORTED"}

\* compute_block_sizes_uniform or compute_block_sizes_non_uniform is called
\* on a builder class of these boundary conditions
ComputeBlockSizes(uniform, BcLower, BcUpper) ==
    /\ builder = NoBuilder
    /\ basis_call = NoCall
    /\ LET bld == [bsplines |-> bsplines, BcLower |-> BcLower, BcUpper |-> BcUpper]
       IN  basis_call' = [op |-> "compute_block_sizes", uniform |-> uniform,
                          BcLower |-> BcLower, BcUpper |-> BcUpper,
                          ret |-> IF uniform THEN compute_block_sizes_uniform(bld)
                                  ELSE compute_block_sizes_non_uniform(bld)]
    /\ UNCHANGED <<bsplines, builder, spline, vals, n_operator, derivs_in>>
    /\ UNCHANGED lpvars

BoundCondNext ==
    \/ \E BcLower, BcUpper \in AnyBoundConds \ {"PERIODIC"} :
           HermiteConstruct(BcLower, BcUpper)
    \/ \E uniform \in BOOLEAN, BcLower, BcUpper \in AnyBoundConds :
           ComputeBlockSizes(uniform, BcLower, BcUpper)

BoundCondSpec == HermiteInit /\ [][BoundCondNext]_vars

(***************************************************************************)
(* FrontSpec: a SplineBuilder is constructed on an interpolation domain    *)
(* whose front has any uid 0 .. MaxFront (a DiscreteDomain may start at    *)
(* any element of its dimension), on a periodic or a non-periodic basis,   *)
(* and called once.                                                        *)
(***************************************************************************)
FrontInit ==
    /\ LPIdle
    /\ bsplines \in BuilderBases \cup
                    {bs \in HermiteBases :
                         /\ degree(bs) <= MaxDegree \/ ncells(bs) = 1
                         /\ degree(bs) <= MaxNonUniformDegree \/ EqualWidths(bs)}
    /\ basis_call = NoCall
    /\ builder = NoBuilder
    /\ spline = NoView
    /\ vals = NoView
    /\ n_operator = 0
    /\ derivs_in = NoDerivsIn

\* the constructor on an interpolation domain whose front has uid start
ConstructAt(BcLower, BcUpper, start) ==
    /\ builder = NoBuilder
    /\ bsplines.is_periodic <=> BcLower = "PERIODIC"
    /\ bsplines.is_periodic <=> BcUpper = "PERIODIC"
    /\ builder' = SplineBuilder(bsplines, BcLower, BcUpper,
                                IF bsplines.is_periodic THEN GrevillePoints(bsplines)
                                ELSE GrevilleSampling(bsplines, BcLower, BcUpper),
                                start)
    /\ UNCHANGED <<bsplines, basis_call, spline, vals, n_operator, derivs_in>>
    /\ UNCHANGED lpvars

\* the buffers of boundary derivatives operator() accepts on a side with n
\* boundary equations
AcceptedDerivs(BoundCond, n, nbatch) ==
    IF BoundCond = "HERMITE"
    THEN {[has_value |-> TRUE, front |-> 1, extent |-> n,
           v |-> [i \in 1 .. n |-> Vec(nbatch, LAMBDA j : Int2Rat(i))]]}
    ELSE {NoDerivs}

\* operator() is called once on the builder, with buffers its assertions
\* accept
FrontOperator(values, nvals, dmin, dmax, nbatch, version) ==
    /\ builder # NoBuilder
    /\ builder.status = "ok"
    /\ n_operator < MaxHermiteCalls
    /\ \E r \in operator_outcomes(builder, NewSpline(bsplines, nbatch), values, nvals,
                                  dmin, dmax, nbatch, version) :
           builder' = r.bld /\ spline' = r.spline
    /\ vals' = values
    /\ derivs_in' = [xmin |-> dmin, xmax |-> dmax]
    /\ n_operator' = n_operator + 1
    /\ UNCHANGED <<bsplines, basis_call>>
    /\ UNCHANGED lpvars

FrontNext ==
    \/ \E start \in 0 .. MaxFront : ConstructAt("PERIODIC", "PERIODIC", start)
    \/ \E start \in 0 .. MaxFront, BcLower, BcUpper \in NonPeriodicBoundConds :
           ConstructAt(BcLower, BcUpper, start)
    \/ /\ builder # NoBuilder
       /\ \E nbatch \in 1 .. MaxCols, version \in Versions :
           \E dmin \in AcceptedDerivs(builder.BcLower, s_nbc_xmin(builder), nbatch),
              dmax \in AcceptedDerivs(builder.BcUpper, s_nbc_xmax(builder), nbatch),
              values \in ValuesBuffers(nbasis(bsplines) - s_nbc_xmin(builder)
                                           - s_nbc_xmax(builder), nbatch) :
               FrontOperator(values,
                             nbasis(bsplines) - s_nbc_xmin(builder) - s_nbc_xmax(builder),
                             dmin, dmax, nbatch, version)

FrontSpec == FrontInit /\ [][FrontNext]_vars

(***************************************************************************)
(* ParSpec: the parallel regions.  A region is a set of work items that    *)
(* the execution space runs in any order; call holds the region, its       *)
(* operands and the work items still to run, b the view the region writes  *)
(* (matrix for compute_schur_complement).  A work item is one step.        *)
(***************************************************************************)
\* the four kernels of the lambda/gamma sections
Sections == {"solve_lambda_section", "solve_lambda_section_transpose",
             "solve_gamma_section", "solve_gamma_section_transpose"}

\* the kernel reads its matrix as M(l, i)
section_transposed(op) ==
    op \in {"solve_lambda_section_transpose", "solve_gamma_section_transpose"}

\* number of rows of the view the kernel writes: the TeamThreadRange
section_rows(op, k, nb) ==
    IF op \in {"solve_lambda_section", "solve_gamma_section_transpose"} THEN k ELSE nb

\* number of rows of the view the kernel reads: the range of l
section_len(op, k, nb) ==
    IF op \in {"solve_lambda_section", "solve_gamma_section_transpose"} THEN nb ELSE k

\* thread i of team j: for (l = 0; l < len; ++l) out(i, j) -= M(..) * in(l, j)
section_item(M, transposed, len, in, out, i, j) ==
    For(0, len, out,
        LAMBDA o, l : [o EXCEPT ![i][j] =
                          RSub(@, RMul(IF transposed THEN M[l][i] ELSE M[i][l], in[l][j]))])

\* a work item is <<j>> (one column) or a pair of loop indices, outer first
Earlier(w1, w2) ==
    w1[1] < w2[1] \/ (w1[1] = w2[1] /\ Len(w1) = 2 /\ w1[2] < w2[2])

\* the work items of a region
Items(region) ==
    IF region.op \in Sections
    THEN {<<j, i>> : j \in 0 .. region.nc - 1, i \in 0 .. region.rows - 1}
    ELSE IF region.op = "compute_schur_complement"
    THEN {<<i, j>> : i \in 0 .. region.rows - 1, j \in 0 .. region.rows - 1}
    ELSE {<<j>> : j \in 0 .. region.nc - 1}

\* what work item w makes of the output
Item(region, out, w) ==
    IF region.op = "spdm_minus1_1"
    THEN spdm_column(region.LinOp, region.x, out, region.transpose, w[1], 1)
    ELSE IF region.op \in Sections
    THEN section_item(region.M, section_transposed(region.op), region.len,
                      region.x, out, w[2], w[1])
    ELSE IF region.op = "compute_schur_complement"
    THEN compute_schur_complement_item(out, w[1], w[2])
    ELSE periodic_rows_duplicate(out, w[1], region.offset, region.nbasis, region.D)

RECURSIVE RunItems(_, _, _)
\* the work items run one after the other, in the order of the loop indices
RunItems(region, out, items) ==
    IF items = {} THEN out
    ELSE LET w == CHOOSE w \in items : \A v \in items : v = w \/ Earlier(w, v)
         IN  RunItems(region, Item(region, out, w), items \ {w})

\* the elements <<view, row, column>> work item w writes
Writes(region, w) ==
    IF region.op = "spdm_minus1_1"
    THEN {<<"y", IF region.transpose THEN region.LinOp.nz[p].col
                                     ELSE region.LinOp.nz[p].row, w[1]>> :
              p \in 1 .. Len(region.LinOp.nz)}
    ELSE IF region.op \in Sections
    THEN {<<"out", w[2], w[1]>>}
    ELSE IF region.op = "compute_schur_complement"
    THEN {<<"bottom_right", w[1], w[2]>>}
    ELSE {<<"spline", i, w[1]>> :
              i \in IF region.offset # 0 THEN 0 .. region.offset - 1 ELSE {}}
         \cup {<<"spline", region.nbasis + i, w[1]>> : i \in 0 .. region.D - 1}

\* the elements work item w reads
Reads(region, w) ==
    IF region.op = "spdm_minus1_1"
    THEN Writes(region, w)
         \cup {<<"x", IF region.transpose THEN region.LinOp.nz[p].row
                                          ELSE region.LinOp.nz[p].col, w[1]>> :
                   p \in 1 .. Len(region.LinOp.nz)}
    ELSE IF region.op \in Sections
    THEN Writes(region, w) \cup {<<"in", l, w[1]>> : l \in 0 .. region.len - 1}
    ELSE IF region.op = "compute_schur_complement"
    THEN Writes(region, w)
         \cup {<<"bottom_left", w[1], l>> : l \in 0 .. region.nq - 1}
         \cup {<<"top_right", l, w[2]>> : l \in 0 .. region.nq - 1}
    ELSE {<<"spline", region.nbasis + i, w[1]>> :
              i \in IF region.offset # 0 THEN 0 .. region.offset - 1 ELSE {}}
         \cup {<<"spline", i, w[1]>> : i \in 0 .. region.D - 1}

\* (m_k, m_nb) of the kernels; (size, size of the top-left block) of the
\* object of compute_schur_complement; (nbasis, degree) of the duplication
ParSections == <<1, 2>>
ParShape == <<3, 1>>
ParBasis == <<3, 2>>

\* the nr x nc views with entries 0 or 1
Bits(nr, nc) == [0 .. nr - 1 -> [0 .. nc - 1 -> {Zero, One}]]

\* an output view with pairwise distinct entries
Numbered(nr, nc) == Mat(nr, nc, LAMBDA i, j : Int2Rat(1 + i * nc + j))

SpdmRegions ==
    {[op |-> "spdm_minus1_1", transpose |-> tr, LinOp |-> dense2coo(M, 2, 2), x |-> x,
      nc |-> MaxParCols, y0 |-> Numbered(2, MaxParCols)] :
         tr \in BOOLEAN, M \in Bits(2, 2), x \in {v \in Bits(2, MaxParCols) : v[0][0] = One}}

\* the regions of kernel op
SectionRegionsOf(op) ==
    {[op |-> op, M |-> M, x |-> x, nc |-> MaxParCols,
      rows |-> section_rows(op, ParSections[1], ParSections[2]),
      len |-> section_len(op, ParSections[1], ParSections[2]),
      y0 |-> Numbered(section_rows(op, ParSections[1], ParSections[2]), MaxParCols)] :
         M \in IF op \in {"solve_lambda_section", "solve_lambda_section_transpose"}
               THEN Bits(ParSections[1], ParSections[2])
               ELSE Bits(ParSections[2], ParSections[1]),
         x \in Bits(section_len(op, ParSections[1], ParSections[2]), MaxParCols)}

SectionRegions == UNION {SectionRegionsOf(op) : op \in Sections}

\* the object when setup_solver reaches compute_schur_complement
SchurObjects ==
    {[SplinesLinearProblem2x2Blocks(ParShape[1], NewBlock(ParShape[2]))
         EXCEPT !.m_top_right_block = tr, !.m_bottom_left_block = bl,
                !.m_bottom_right_block.a = Numbered(ParShape[1] - ParShape[2],
                                                    ParShape[1] - ParShape[2])] :
         tr \in Bits(ParShape[2], ParShape[1] - ParShape[2]),
         bl \in Bits(ParShape[1] - ParShape[2], ParShape[2])}

SchurRegions ==
    {[op |-> "compute_schur_complement", rows |-> ParShape[1] - ParShape[2],
      nq |-> ParShape[2], nc |-> ParShape[1] - ParShape[2], y0 |-> self] :
         self \in SchurObjects}

DuplicateRegions ==
    {[op |-> "periodic_rows_duplicate", offset |-> offset, nbasis |-> ParBasis[1],
      D |-> ParBasis[2], nc |-> MaxParCols,
      y0 |-> Numbered(ParBasis[1] + ParBasis[2], MaxParCols)] :
         offset \in 0 .. ParBasis[2] - 1}

\* the region starts: every work item is still to run
Launch(region) ==
    /\ call = region @@ [pending |-> Items(region), reordered |-> FALSE]
    /\ IF region.op = "compute_schur_complement"
       THEN matrix = region.y0 /\ b = NoView
       ELSE matrix = [status |-> "none"] /\ b = region.y0
    /\ assembled = << >>
    /\ n_setup_solver = 0
    /\ late_calls = 0

ParInit ==
    /\ \E region \in SpdmRegions \cup SectionRegions \cup SchurRegions \cup DuplicateRegions :
           Launch(region)
    /\ BIdle

\* work item w has run
Ran(w) ==
    call' = [call EXCEPT !.pending = @ \ {w},
                         !.reordered = @ \/ \E v \in call.pending : Earlier(v, w)]

\* one work item of a region that writes the view b
ViewItem(op, w) ==
    /\ call.op \in op
    /\ w \in call.pending
    /\ b' = Item(call, b, w)
    /\ Ran(w)
    /\ UNCHANGED <<matrix, assembled, n_setup_solver, late_calls>>
    /\ UNCHANGED bvars

SpdmItem(w) == ViewItem({"spdm_minus1_1"}, w)

SectionItem(w) == ViewItem(Sections, w)

DuplicateItem(w) == ViewItem({"periodic_rows_duplicate"}, w)

\* one work item of compute_schur_complement
SchurItem(w) ==
    /\ call.op = "compute_schur_complement"
    /\ w \in call.pending
    /\ matrix' = Item(call, matrix, w)
    /\ Ran(w)
    /\ UNCHANGED <<b, assembled, n_setup_solver, late_calls>>
    /\ UNCHANGED bvars

ParNext ==
    \/ \E w \in call.pending : SpdmItem(w)
    \/ \E w \in call.pending : SectionItem(w)
    \/ \E w \in call.pending : SchurItem(w)
    \/ \E w \in call.pending : DuplicateItem(w)

ParSpec == ParInit /\ [][ParNext]_vars

(***************************************************************************)
(* Properties of the linear problem (specification Spec).                  *)
(***************************************************************************)
\* the nr x nc block of A whose first entry is A[r0][c0]
SubBlock(A, r0, c0, nr, nc) == Mat(nr, nc, LAMBDA i, j : A[r0 + i][c0 + j])

MatSub(A, B, nr, nc) == Mat(nr, nc, LAMBDA i, j : RSub(A[i][j], B[i][j]))

IsPrefix(s, t) == Len(s) <= Len(t) /\ \A p \in 1 .. Len(s) : s[p] = t[p]

\* the last call of the client is a get_element or set_element made after
\* setup_solver
LateElementCall == late_calls > 0 /\ call.op \in {"get_element", "set_element"}

\* (i, j) lies in the top-right or in the bottom-left block
InCouplingBlock(self, i, j) ==
    (i < Block_size(self.m_top_left_block)) # (j < Block_size(self.m_top_left_block))

\* the entry the object stores for (i, j) of a coupling block
StoredCoupling(self, i, j) ==
    IF j >= Block_size(self.m_top_left_block)
    THEN self.m_top_right_block[i][j - Block_size(self.m_top_left_block)]
    ELSE self.m_bottom_left_block[i - Block_size(self.m_top_left_block)][j]

\* C1: a get_element or set_element made after setup_solver fails as a
\* precondition violation.
C1_LateElementCallFails == LateElementCall => matrix.status = "aborted"

\* What the object does instead on a coordinate of a coupling block: the call
\* returns normally, get_element with the entry stored in the factorized
\* representation (Q^-1*gamma in the top-right block), set_element after
\* overwriting it.
LateCouplingCallUnchecked ==
    (LateElementCall /\ InCouplingBlock(matrix, call.i, call.j)) =>
        /\ matrix.status = "ok"
        /\ call.op = "get_element" => call.ret = StoredCoupling(matrix, call.i, call.j)
        /\ call.op = "set_element" => StoredCoupling(matrix, call.i, call.j) = call.aij

\* a late get_element on the top-right block returned an entry of Q^-1*gamma
\* that is not the entry of gamma the client had set
LateGetReadsFactorization ==
    /\ LateElementCall
    /\ call.op = "get_element"
    /\ call.i < Block_size(matrix.m_top_left_block)
    /\ call.j >= Block_size(matrix.m_top_left_block)
    /\ matrix.status = "ok"
    /\ call.ret # assembled[call.i][call.j]

RECURSIVE SchurCalls(_)
\* the calls compute_schur_complement makes for n work items
SchurCalls(n) ==
    IF n = 0 THEN << >>
    ELSE <<Call("bottom_right", "get_element", FALSE),
           Call("bottom_right", "set_element", FALSE)>> \o SchurCalls(n - 1)

\* the calls of a complete setup_solver on sub-blocks, for a border of size k
SetupCalls(k) ==
    <<Call("top_left", "setup_solver", FALSE), Call("top_left", "solve", TRUE)>>
        \o SchurCalls(k * k)
        \o <<Call("bottom_right", "setup_solver", FALSE)>>

\* C3: setup_solver calls, in this order, setup_solver of the top-left block Q
\* (not factorized yet), solve of Q (factorized) leaving X with Q*X = gamma in
\* the top-right block, get_element/set_element of the bottom-right block (not
\* factorized yet) leaving delta - lambda*X in it, setup_solver of the
\* bottom-right block; a failing step ends the sequence.
C3_SetupSolverSteps ==
    call.op = "setup_solver" =>
        LET n  == matrix.m_size
            nq == Block_size(matrix.m_top_left_block)
            k  == n - nq
            X  == matrix.m_top_right_block
        IN  /\ IsPrefix(matrix.trace, SetupCalls(k))
            /\ matrix.status = "ok" =>
                   /\ matrix.trace = SetupCalls(k)
                   /\ MatMul(SubBlock(assembled, 0, 0, nq, nq), X, nq, nq, k)
                          = SubBlock(assembled, 0, nq, nq, k)
                   /\ matrix.m_bottom_right_block.a
                          = MatSub(SubBlock(assembled, nq, nq, k, k),
                                   MatMul(SubBlock(assembled, nq, 0, k, nq), X, k, nq, k),
                                   k, k)
                   /\ IsFactorized(matrix.m_top_left_block)
                   /\ matrix.m_bottom_right_block.factorized

\* a complete setup_solver on a matrix whose coupling blocks are not zero and
\* whose Schur complement is not delta
C3_Witness ==
    /\ call.op = "setup_solver"
    /\ matrix.status = "ok"
    /\ matrix.m_bottom_right_block.a
           # SubBlock(assembled, Block_size(matrix.m_top_left_block), Block_size(matrix.m_top_left_block),
                      matrix.m_size - Block_size(matrix.m_top_left_block),
                      matrix.m_size - Block_size(matrix.m_top_left_block))

\* the last call is a solve that returned, transposed or not
Solved(transpose) ==
    call.op = "solve" /\ call.transpose = transpose /\ matrix.status = "ok"

C5_SchurEquivalence ==
    Solved(FALSE) => MatMul(assembled, b, matrix.m_size, matrix.m_size, call.nc) = call.b

\* a non-transposed solve of a system whose four blocks are all non-zero, with
\* a right-hand side that is not zero
C5_Witness ==
    /\ Solved(FALSE)
    /\ call.b # ZeroMat(matrix.m_size, call.nc)
    /\ LET n  == matrix.m_size
           nq == Block_size(matrix.m_top_left_block)
       IN  /\ SubBlock(assembled, 0, nq, nq, n - nq) # ZeroMat(nq, n - nq)
           /\ SubBlock(assembled, nq, 0, n - nq, nq) # ZeroMat(n - nq, nq)
           /\ SubBlock(assembled, nq, nq, n - nq, n - nq) # ZeroMat(n - nq, n - nq)

\* C6: solve(b, transpose = true) calls the four steps in the reverse order
\* with transposed operands and leaves in b the x with A^t*x = b.
C6_TransposedSolve ==
    Solved(TRUE) =>
        /\ matrix.trace = <<Call("top_right", "T", FALSE),
                            Call("bottom_right", "solve", TRUE),
                            Call("bottom_left", "T", FALSE),
                            Call("top_left", "solve", TRUE)>>
        /\ MatMul(Transpose(assembled, matrix.m_size, matrix.m_size), b,
                  matrix.m_size, matrix.m_size, call.nc) = call.b

\* a transposed solve of a matrix that is not symmetric, whose result is not
\* the solution of the system that is not transposed
C6_Witness ==
    /\ Solved(TRUE)
    /\ Transpose(assembled, matrix.m_size, matrix.m_size) # assembled
    /\ MatMul(assembled, b, matrix.m_size, matrix.m_size, call.nc) # call.b

C10_PartitionOfUnity ==
    (   basis_call.op = "eval_basis"
     /\ RLe(rmin(bsplines), basis_call.x) /\ RLe(basis_call.x, rmax(bsplines))) =>
        /\ basis_call.ok
        /\ DOMAIN basis_call.values = 0 .. degree(bsplines)
        /\ \A s \in 0 .. degree(bsplines) :
               basis_call.values[s] # Garbage /\ RLe(Zero, basis_call.values[s])
        /\ RSum(LAMBDA s : basis_call.values[s], 0, degree(bsplines) + 1) = One

\* eval_basis at a knot inside the domain of a basis of degree 2 or more
C10_Witness ==
    /\ basis_call.op = "eval_basis"
    /\ basis_call.ok
    /\ degree(bsplines) >= 2
    /\ ncells(bsplines) >= 2
    /\ basis_call.x = get_knot(bsplines, 1)
    /\ basis_call.jmin = 1

(***************************************************************************)
(* Properties of the builder (specification BuilderSpec).                  *)
(***************************************************************************)
\* the fields of a matrix that hold its factorization
Factorization(m) ==
    <<m.m_top_left_block, m.m_top_right_block, m.m_top_right_block_coo,
      m.m_bottom_left_block, m.m_bottom_left_block_coo, m.m_bottom_right_block>>

\* the calls made on the matrix: set_element only, then one setup_solver, then
\* required_number_of_rhs_rows and solve, one pair per operator() call
CallsInOrder ==
    builder # NoBuilder =>
        LET c == builder.calls
            m == nbasis(bsplines) * (degree(bsplines) + 1)
        IN  /\ Len(c) = m + 1 + 2 * n_operator
            /\ \A p \in 1 .. m : c[p] = "set_element"
            /\ c[m + 1] = "setup_solver"
            /\ \A q \in 1 .. n_operator :
                   /\ c[m + 2 * q] = "required_number_of_rhs_rows"
                   /\ c[m + 2 * q + 1] = "solve"

\* a step of operator() leaves the factorization as it was
OperatorKeepsFactorization ==
    (n_operator' = n_operator + 1) =>
        Factorization(builder'.matrix) = Factorization(builder.matrix)

\* C2: the builder calls set_element only before the one setup_solver of its
\* constructor and solve only after it; operator() calls nothing but
\* required_number_of_rhs_rows and solve and leaves the factorization unchanged.
C2_BuilderCallOrder == []CallsInOrder /\ [][OperatorKeepsFactorization]_vars

\* a builder after its second operator() call
C2_Witness ==
    /\ builder # NoBuilder
    /\ builder.status = "ok"
    /\ n_operator = 2
    /\ spline # vals

\* operator() has returned normally
Built == n_operator > 0 /\ builder.status = "ok"

\* number of batch columns of the last operator() call
NBatch == Cardinality(DOMAIN vals[0])

\* C8: after operator() on a periodic builder, in every batch column the
\* coefficients i and nbasis + i are equal for i in [0, degree), m_offset being
\* zero or not.
C8_PeriodicDuplication ==
    Built =>
        \A j \in 0 .. NBatch - 1, i \in 0 .. degree(bsplines) - 1 :
            /\ spline[i][j] # Garbage
            /\ spline[i][j] = spline[nbasis(bsplines) + i][j]

\* operator() with a non-zero offset on values that are not all equal
C8_Witness ==
    /\ Built
    /\ builder.m_offset # 0
    /\ \E r \in 0 .. nbasis(bsplines) - 1 : vals[r] # vals[0]
    /\ spline[0] # spline[1]

\* the basis functions at interpolation point r
BasisAt(r) == eval_basis(bsplines, NewValues(bsplines), builder.points[r])

\* the interpolation matrix: entry (r, c) is the value at point r of the basis
\* function whose coefficient is unknown c
InterpolationMatrix ==
    Mat(nbasis(bsplines), nbasis(bsplines),
        LAMBDA r, c :
            RSum(LAMBDA s : IF (BasisAt(r).jmin - builder.m_offset + s) % nbasis(bsplines) = c
                            THEN BasisAt(r).values[s] ELSE Zero,
                 0, degree(bsplines) + 1))

\* C9: after operator() on a periodic builder, with x the solution of the
\* interpolation system whose row r has the sampled value of point r as its
\* right-hand side, slot k of the coefficients holds x[(k - m_offset) mod
\* nbasis] for every k in [0, nbasis + degree), and the spline takes the
\* sampled value at every interpolation point.
C9_InterpolationIdentity ==
    Built =>
        LET nb == nbasis(bsplines)
            x  == ExactSolve(InterpolationMatrix, nb, vals, NBatch)
        IN  \A j \in 0 .. NBatch - 1 :
                /\ \A k \in 0 .. nb + degree(bsplines) - 1 :
                       spline[k][j] = x[(k - builder.m_offset) % nb][j]
                /\ \A r \in 0 .. nb - 1 :
                       RSum(LAMBDA s : RMul(BasisAt(r).values[s],
                                            spline[BasisAt(r).jmin + s][j]),
                            0, degree(bsplines) + 1) = vals[r][j]

\* operator() with a non-zero offset, on cells of unequal widths, of values
\* that are not all equal
C9_Witness ==
    /\ Built
    /\ builder.m_offset # 0
    /\ ~EqualWidths(bsplines)
    /\ \E r \in 0 .. nbasis(bsplines) - 1 : vals[r] # vals[0]

(***************************************************************************)
(* Further properties of the basis (specification BasisSpec).              *)
(***************************************************************************)
\* an evaluation call (eval_basis, eval_deriv or eval_basis_and_n_derivs)
\* has been made
Evaluated == basis_call.op \in {"eval_basis", "eval_deriv", "eval_basis_and_n_derivs"}

\* the coordinate of the call lies in [rmin, rmax]
InDomain == RLe(rmin(bsplines), basis_call.x) /\ RLe(basis_call.x, rmax(bsplines))

\* C11: for rmin <= x <= rmax each of the three evaluation functions returns
\* the cell icell found by find_cell, with 0 <= icell <= ncells - 1 and
\* knot(icell) <= x <= knot(icell + 1); x = rmin gives cell 0, x = rmax the last
\* cell, and for rmin < x < rmax the cell has x < knot(icell + 1).
C11_CellLocation ==
    (Evaluated /\ InDomain) =>
        LET icell == basis_call.jmin
            x     == basis_call.x
        IN  /\ basis_call.ok
            /\ icell \in 0 .. ncells(bsplines) - 1
            /\ RLe(get_knot(bsplines, icell), x)
            /\ RLe(x, get_knot(bsplines, icell + 1))
            /\ x = rmin(bsplines) => icell = 0
            /\ x = rmax(bsplines) => icell = ncells(bsplines) - 1
            /\ (RLt(rmin(bsplines), x) /\ RLt(x, rmax(bsplines))) =>
                   RLt(x, get_knot(bsplines, icell + 1))

\* an evaluation at a knot strictly inside a domain of three cells or more,
\* found in the cell that starts at the knot
C11_Witness ==
    /\ Evaluated
    /\ basis_call.ok
    /\ ncells(bsplines) >= 3
    /\ basis_call.jmin = 2
    /\ basis_call.x = get_knot(bsplines, 2)
    /\ basis_call.op = "eval_deriv"

\* the output buffer handed to the call, before the call
OutputBefore ==
    IF basis_call.op = "eval_basis_and_n_derivs"
    THEN NewDerivs(bsplines, basis_call.n)
    ELSE NewValues(bsplines)

HermiteCalled == n_operator > 0 /\ ~bsplines.is_periodic

\* the buffer a side with boundary condition bc and n boundary equations takes
SideAccepted(bc, derivs, n) ==
    IF bc = "HERMITE"
    THEN derivs.has_value /\ derivs.extent # 0 /\ derivs.front = 1 /\ derivs.extent = n
    ELSE ~derivs.has_value \/ derivs.extent = 0

LowerAccepted == SideAccepted(builder.BcLower, derivs_in.xmin, s_nbc_xmin(builder))
UpperAccepted == SideAccepted(builder.BcUpper, derivs_in.xmax, s_nbc_xmax(builder))

\* C13: operator() fails unless each side, independently of the other, is
\* given a non-empty buffer of derivatives exactly when it is HERMITE, that
\* buffer starting at derivative index 1 and holding exactly s_nbc entries
C13_DerivsBuffersChecked ==
    (HermiteCalled /\ ~(LowerAccepted /\ UpperAccepted)) => builder.status = "aborted"

\* a call failing for its lower buffer alone, which has the right extent but
\* starts at derivative index 0, next to an upper side of the other kind
C13_Witness ==
    /\ HermiteCalled
    /\ builder.BcLower = "HERMITE" /\ builder.BcUpper = "GREVILLE"
    /\ s_nbc_xmin(builder) >= 1
    /\ derivs_in.xmin.has_value /\ derivs_in.xmin.front = 0
    /\ derivs_in.xmin.extent = s_nbc_xmin(builder)
    /\ UpperAccepted
    /\ builder.status = "aborted"


(***************************************************************************)
(* Properties of a failing solve (specification FaultSpec).                *)
(***************************************************************************)
\* the last call is a solve in which LAPACKE_dgbtrs reported an error for
\* sub-block callee
SolveFailing(callee) == call.op = "solve" /\ call.failing = callee

\* the view the solve of sub-block callee was handed, from the right-hand
\* side of the call and the factorized blocks
HandedView(callee) ==
    LET n   == matrix.m_size
        nq  == Block_size(matrix.m_top_left_block)
        k   == n - nq
        nc  == call.nc
        r1  == SubRows(call.b, 0, nq, nc)
        r2  == SubRows(call.b, nq, n, nc)
        Qt  == Transpose(matrix.m_top_left_block.a, nq, nq)
        St  == Transpose(matrix.m_bottom_right_block.a, k, k)
        d2  == MatSub(r2, MatMul(matrix.m_bottom_left_block,
                                 ExactSolve(matrix.m_top_left_block.a, nq, r1, nc),
                                 k, nq, nc), k, nc)
        t2  == MatSub(r2, MatMul(Transpose(matrix.m_top_right_block, nq, k), r1, k, nq, nc),
                      k, nc)
        t1  == MatSub(r1, MatMul(Transpose(matrix.m_bottom_left_block, k, nq),
                                 ExactSolve(St, k, t2, nc), nq, k, nc), nq, nc)
    IN  CASE callee = "top_left" /\ ~call.transpose     -> r1
          [] callee = "bottom_right" /\ ~call.transpose -> d2
          [] callee = "bottom_right" /\ call.transpose  -> t2
          [] callee = "top_left" /\ call.transpose      -> t1

\* the rows of b that are the view of sub-block callee
ViewOf(callee) ==
    IF callee = "top_left"
    THEN SubRows(b, 0, Block_size(matrix.m_top_left_block), call.nc)
    ELSE SubRows(b, Block_size(matrix.m_top_left_block), matrix.m_size, call.nc)

\* C14: when a step of solve fails, the right-hand side of the caller holds
\* the content it had before the call
C14_NoPartialFailure ==
    (call.op = "solve" /\ matrix.status # "ok") => b = call.b

\* C15: when LAPACKE_dgbtrs reports a non-zero status in the solve of a
\* sub-block, solve fails, the failing call is the last call made and the only
\* solve asked of that sub-block, and the view handed to it keeps the content
\* it was handed
C15_StatusPropagated ==
    \A callee \in SubBlocks :
        SolveFailing(callee) =>
            /\ matrix.status = "failed"
            /\ matrix.trace # << >>
            /\ matrix.trace[Len(matrix.trace)] = Call(callee, "solve", TRUE)
            /\ Cardinality({q \in 1 .. Len(matrix.trace) :
                                matrix.trace[q].callee = callee}) = 1
            /\ ViewOf(callee) = HandedView(callee)

\* a solve failing in the second sub-solve of the non-transposed order, whose
\* handed view differs from what the exact solution would have put there
C15_Witness ==
    /\ SolveFailing("bottom_right")
    /\ ~call.transpose
    /\ matrix.status = "failed"
    /\ LET k == matrix.m_size - Block_size(matrix.m_top_left_block)
       IN  ExactSolve(matrix.m_bottom_right_block.a, k, HandedView("bottom_right"), call.nc)
               # HandedView("bottom_right")

\* operator() ending on a failed assertion with entries of the coefficient
\* buffer already written: the extent of the upper buffer is checked after
\* the values were copied into spline
OperatorFailedAfterFill ==
    /\ HermiteCalled
    /\ builder.status = "aborted"
    /\ \E i \in DOMAIN spline : \E j \in DOMAIN spline[i] : spline[i][j] # Garbage

(***************************************************************************)
(* Properties of the compile-time paths of solve (specification            *)
(* NestedSpec).                                                            *)
(***************************************************************************)
\* what the path `version` of solve leaves in b for the factorized blocks,
\* the right-hand side and the transpose flag of the last call
LeftInB(version) ==
    solve(matrix, call.b, call.nrows, call.nc, call.transpose, version).b

\* C16: the four compile-time paths of solve leave the same content in b,
\* also when the top-left block is itself a SplinesLinearProblem2x2Blocks
C16_SamePaths ==
    (call.op = "solve" /\ matrix.status = "ok") =>
        \A version \in AllVersions : b = LeftInB(version)

(***************************************************************************)
(* Properties of the parallel regions (specification ParSpec).             *)
(***************************************************************************)
InRegion == "pending" \in DOMAIN call

\* the output of the region so far
RegionOut == IF call.op = "compute_schur_complement" THEN matrix ELSE b

\* the work items that have run
Done == Items(call) \ call.pending

\* element (i, j) of a view or of the bottom-right block
OutElement(out, i, j) ==
    IF call.op = "compute_schur_complement" THEN out.m_bottom_right_block.a[i][j]
    ELSE out[i][j]

OutName ==
    CASE call.op = "spdm_minus1_1" -> "y"
      [] call.op \in Sections -> "out"
      [] call.op = "compute_schur_complement" -> "bottom_right"
      [] OTHER -> "spline"

OutRows ==
    IF call.op = "spdm_minus1_1" THEN 2
    ELSE IF call.op = "periodic_rows_duplicate" THEN call.nbasis + call.D
    ELSE call.rows

\* no element is written by two work items, none is read by one work item
\* and written by another
RaceFree ==
    \A w1, w2 \in Items(call) :
        w1 # w2 => Writes(call, w1) \cap (Writes(call, w2) \cup Reads(call, w2)) = {}

\* an element that differs from its initial value was written by a work
\* item that has run
Footprint ==
    \A i \in 0 .. OutRows - 1, j \in 0 .. call.nc - 1 :
        OutElement(RegionOut, i, j) # OutElement(call.y0, i, j)
            => \E w \in Done : <<OutName, i, j>> \in Writes(call, w)

\* the finished region left what its work items leave when run in the order
\* of the loop indices
Deterministic ==
    call.pending = {} => RegionOut = RunItems(call, call.y0, Items(call))

\* column j of a view, as a view of one column
Col(v, j) == [i \in DOMAIN v |-> [c \in {0} |-> v[i][j]]]

\* the region on column j alone
ColumnAlone(j) ==
    IF call.op = "periodic_rows_duplicate" THEN [call EXCEPT !.nc = 1, !.y0 = Col(@, j)]
    ELSE [call EXCEPT !.nc = 1, !.y0 = Col(@, j), !.x = Col(@, j)]

\* column j of the finished region is the region run on column j alone
ColumnIndependent ==
    (call.pending = {} /\ call.op # "compute_schur_complement")
        => \A j \in 0 .. call.nc - 1 :
               Col(b, j) = RunItems(ColumnAlone(j), ColumnAlone(j).y0,
                                    Items(ColumnAlone(j)))

IsMat(A, nr, nc) == DOMAIN A = 0 .. nr - 1 /\ \A r \in DOMAIN A : DOMAIN A[r] = 0 .. nc - 1

RECURSIVE Shaped(_)
\* the blocks of a linear problem have the extents of the decomposition
Shaped(blk) ==
    IF Is2x2(blk)
    THEN /\ Block_size(blk.m_top_left_block) <= blk.m_size
         /\ Block_size(blk.m_top_left_block) + Block_size(blk.m_bottom_right_block)
                = size(blk)
         /\ IsMat(blk.m_top_right_block, Block_size(blk.m_top_left_block),
                  blk.m_size - Block_size(blk.m_top_left_block))
         /\ IsMat(blk.m_bottom_left_block, blk.m_size - Block_size(blk.m_top_left_block),
                  Block_size(blk.m_top_left_block))
         /\ Shaped(blk.m_top_left_block)
         /\ Shaped(blk.m_bottom_right_block)
    ELSE IsMat(blk.a, blk.size, blk.size)

\* the entries <<path, r, c>> of the blocks at path in which A and B differ
MatDiff(A, B, path) ==
    UNION {{<<path, r, c>> : c \in {c \in DOMAIN A[r] : A[r][c] # B[r][c]}} : r \in DOMAIN A}

RECURSIVE Changed(_, _, _)
\* the stored entries in which two linear problems of one shape differ
Changed(old, new, path) ==
    IF Is2x2(old)
    THEN Changed(old.m_top_left_block, new.m_top_left_block, Append(path, "top_left"))
         \cup Changed(old.m_bottom_right_block, new.m_bottom_right_block,
                     Append(path, "bottom_right"))
         \cup MatDiff(old.m_top_right_block, new.m_top_right_block,
                     Append(path, "top_right"))
         \cup MatDiff(old.m_bottom_left_block, new.m_bottom_left_block,
                     Append(path, "bottom_left"))
    ELSE MatDiff(old.a, new.a, path)

\* a value no client of ShapeSpec stores
Probe == Int2Rat(MaxWeight + 1)

\* set_element(i, j, Probe) stores into one entry of one block, get_element
\* reads that entry at (i, j) and what it read before everywhere else
RoutedOnce(self, i, j) ==
    LET new == set_element(self, i, j, Probe)
    IN  /\ new.status = "ok"
        /\ Shaped(new)
        /\ Cardinality(Changed(self, new, << >>)) = 1
        /\ get_element(new, i, j) = [status |-> "ok", val |-> Probe]
        /\ \A i2, j2 \in 0 .. size(self) - 1 :
               <<i2, j2>> # <<i, j>> => get_element(new, i2, j2) = get_element(self, i2, j2)

\* C18: the bottom-right block has size n - nq, the top-right block is
\* nq x (n - nq), the bottom-left block (n - nq) x nq, and get_element and
\* set_element route every (i, j) of [0, n) x [0, n) to one entry, within
\* range, of exactly one of the four blocks
C18_BlockDecomposition ==
    (matrix.status = "ok" /\ n_setup_solver = 0)
        => /\ Shaped(matrix)
           /\ \A i, j \in 0 .. size(matrix) - 1 : RoutedOnce(matrix, i, j)

\* the client has stored a 1 in a coupling block that is not square and read
\* it back
C18_Witness ==
    /\ matrix.status = "ok"
    /\ size(matrix) = 3
    /\ Block_size(matrix.m_top_left_block) = 1
    /\ matrix.m_top_right_block[0][1] = One
    /\ call = [op |-> "get_element", i |-> 0, j |-> 2, ret |-> One]

(***************************************************************************)
(* Properties of the rows of the assembled matrix (HermiteSpec).           *)
(***************************************************************************)
\* build_matrix_system has run to its end
Assembled == builder # NoBuilder /\ builder.status # "aborted"

\* the rows of the matrix written by a part of build_matrix_system
RowsOf(part) == {r[2] : r \in {q \in builder.rows : q[1] = part}}

\* the boundary equations a side with boundary condition bc contributes
BoundaryRowCount(bc) == IF bc = "HERMITE" THEN degree(bsplines) \div 2 ELSE 0

\* C19: a HERMITE side contributes degree/2 boundary equations, another side
\* none; the lower Hermite part writes the rows [0, s_nbc_xmin), the
\* interpolation part the rows [s_nbc_xmin, nbasis - s_nbc_xmax), one for
\* each interpolation point, the upper Hermite part the rows
\* [nbasis - s_nbc_xmax, nbasis); the three are disjoint and cover [0, nbasis)
C19_BoundaryRows ==
    Assembled =>
        /\ s_nbc_xmin(builder) = BoundaryRowCount(builder.BcLower)
        /\ s_nbc_xmax(builder) = BoundaryRowCount(builder.BcUpper)
        /\ RowsOf("lower") = 0 .. s_nbc_xmin(builder) - 1
        /\ RowsOf("interpolation")
               = s_nbc_xmin(builder) .. nbasis(bsplines) - s_nbc_xmax(builder) - 1
        /\ Cardinality(RowsOf("interpolation")) = interpolation_domain_size(builder)
        /\ RowsOf("upper") = nbasis(bsplines) - s_nbc_xmax(builder) .. nbasis(bsplines) - 1
        /\ RowsOf("lower") \cap RowsOf("interpolation") = {}
        /\ RowsOf("lower") \cap RowsOf("upper") = {}
        /\ RowsOf("interpolation") \cap RowsOf("upper") = {}
        /\ RowsOf("lower") \cup RowsOf("interpolation") \cup RowsOf("upper")
               = 0 .. nbasis(bsplines) - 1

\* a matrix of degree 5 assembled with two Hermite rows on each side
C19_Witness ==
    /\ Assembled
    /\ degree(bsplines) = 5
    /\ Cardinality(RowsOf("lower")) = 2
    /\ Cardinality(RowsOf("upper")) = 2
    /\ RowsOf("interpolation") # {}

(***************************************************************************)
(* Properties of the knot sequence (specification KnotSpec).               *)
(***************************************************************************)
\* the constructor has run on the arguments held in basis_call
Constructed == bsplines # NoBasis /\ basis_call.op = "Impl"

\* the indices of the knots: -degree .. ncells + degree
KnotIndices == -degree(bsplines) .. ncells(bsplines) + degree(bsplines)

\* C20: the knot sequence has nbreaks + 2*degree entries, the knots
\* 0 .. ncells are the break points in order (rmin the first, rmax the last),
\* the sequence is non-decreasing; periodic: knot(k + ncells) is
\* knot(k) + (rmax - rmin) wherever both indices exist; non-periodic:
\* knot(-i) is rmin and knot(ncells + i) is rmax for i in 1 .. degree
C20_KnotSequence ==
    Constructed =>
        /\ bsplines.m_nknots = basis_call.nbreaks + 2 * basis_call.D
        /\ DOMAIN bsplines.knots = 0 .. basis_call.nbreaks + 2 * basis_call.D - 1
        /\ ncells(bsplines) = basis_call.nbreaks - 1
        /\ \A k \in 0 .. ncells(bsplines) : get_knot(bsplines, k) = basis_call.breaks[k]
        /\ rmin(bsplines) = basis_call.breaks[0]
        /\ rmax(bsplines) = basis_call.breaks[basis_call.nbreaks - 1]
        /\ \A k \in KnotIndices \ {ncells(bsplines) + degree(bsplines)} :
               RLe(get_knot(bsplines, k), get_knot(bsplines, k + 1))
        /\ bsplines.is_periodic =>
               \A k \in KnotIndices :
                   k + ncells(bsplines) \in KnotIndices =>
                       get_knot(bsplines, k + ncells(bsplines))
                           = RAdd(get_knot(bsplines, k),
                                  RSub(rmax(bsplines), rmin(bsplines)))
        /\ ~bsplines.is_periodic =>
               \A i \in 1 .. degree(bsplines) :
                   /\ get_knot(bsplines, -i) = rmin(bsplines)
                   /\ get_knot(bsplines, ncells(bsplines) + i) = rmax(bsplines)

\* a periodic basis with fewer cells than its degree, on cells of unequal
\* widths, has been constructed
C20_Witness ==
    /\ Constructed
    /\ bsplines.is_periodic
    /\ ncells(bsplines) = 2
    /\ degree(bsplines) = 5
    /\ get_knot(bsplines, 1) = Int2Rat(1)
    /\ get_knot(bsplines, 2) = Int2Rat(3)
    /\ get_knot(bsplines, -5) = Int2Rat(-8)

(***************************************************************************)
(* Properties of integrals() (specification KnotSpec).                     *)
(***************************************************************************)
\* integrals() has returned; vals is its output
Integrated == basis_call.op = "integrals" /\ basis_call.status = "ok"

Converted == call.op = "dense2coo"

\* entry p of a COO storage comes before entry q in row-major order
RowMajorBefore(p, q) == p.row < q.row \/ (p.row = q.row /\ p.col < q.col)

\* the COO storage holds exactly the entries of the nr x nc view A that are
\* at least tol in magnitude, once each, in row-major order
IsCooOf(coo, A, nr, nc, tol) ==
    /\ coo.m_nrows = nr
    /\ coo.m_ncols = nc
    /\ \A i \in 0 .. nr - 1, j \in 0 .. nc - 1 :
           Cardinality({p \in 1 .. nnz(coo) : coo.nz[p].row = i /\ coo.nz[p].col = j})
               = IF RLe(tol, RAbs(A[i][j])) THEN 1 ELSE 0
    /\ \A p \in 1 .. nnz(coo) :
           /\ coo.nz[p].row \in 0 .. nr - 1
           /\ coo.nz[p].col \in 0 .. nc - 1
           /\ coo.nz[p].val = A[coo.nz[p].row][coo.nz[p].col]
    /\ \A p, q \in 1 .. nnz(coo) : p < q => RowMajorBefore(coo.nz[p], coo.nz[q])
    /\ nnz(coo) = Cardinality({p \in (0 .. nr - 1) \X (0 .. nc - 1) :
                                   RLe(tol, RAbs(A[p[1]][p[2]]))})

\* a tolerance below every nonzero magnitude of the model, as 1e-14 is
Tiny == Rat(1, 1000)

\* the tolerance of the call as a number
TolOf(tol) == IF tol = Epsilon THEN Tiny ELSE tol

\* setup_solver has returned without error
SetUp == n_setup_solver > 0 /\ matrix.status = "ok" /\ call.op = "setup_solver"

\* C22: dense2coo returns exactly the entries with |a_ij| >= tol, once each,
\* none below tol, in row-major order, nnz() their count and nrows()/ncols()
\* the extents of the view; setup_solver builds the top-right COO from
\* Q^-1*gamma, after Q has been factorized and the solve is done, and the
\* bottom-left COO from lambda
C22_Dense2Coo ==
    /\ Converted => IsCooOf(call.ret, call.dense_matrix, call.nr, call.nc, TolOf(call.tol))
    /\ SetUp =>
           LET nq == Block_size(matrix.m_top_left_block)
               k  == matrix.m_size - nq
               Q      == SubBlock(assembled, 0, 0, nq, nq)
               gamma  == SubBlock(assembled, 0, nq, nq, k)
               lambda == SubBlock(assembled, nq, 0, k, nq)
           IN  /\ IsCooOf(matrix.m_top_right_block_coo, ExactSolve(Q, nq, gamma, k),
                          nq, k, Tiny)
               /\ IsCooOf(matrix.m_bottom_left_block_coo, lambda, k, nq, Tiny)
               /\ IsPrefix(<<Call("top_left", "setup_solver", FALSE),
                             Call("top_left", "solve", TRUE)>>, matrix.trace)

\* dense2coo has dropped an entry below the tolerance and kept one equal to it
C22_Witness ==
    /\ Converted
    /\ call.tol = Rat(1, 2)
    /\ call.nr = 2 /\ call.nc = 2
    /\ call.dense_matrix[0][0] = Rat(1, 4)
    /\ call.dense_matrix[0][1] = Rat(-1, 2)
    /\ call.dense_matrix[1][0] = One
    /\ nnz(call.ret) = 2

(***************************************************************************)
(* Properties of the block size computation (specification BoundCondSpec). *)
(***************************************************************************)
\* one of the two boundary conditions is none of PERIODIC, HERMITE, GREVILLE
Unsupported(BcLower, BcUpper) == BcLower \notin BoundConds \/ BcUpper \notin BoundConds

\* C23: compute_block_sizes_uniform and compute_block_sizes_non_uniform throw
\* exactly when a side has a BoundCond other than PERIODIC, HERMITE and
\* GREVILLE; the constructor then allocates, assembles and factorizes no
\* matrix, and with supported values it reaches allocate_matrix
C23_UnsupportedBoundCond ==
    /\ basis_call.op = "compute_block_sizes" =>
           (basis_call.ret.threw <=> Unsupported(basis_call.BcLower, basis_call.BcUpper))
    /\ builder # NoBuilder =>
           IF Unsupported(builder.BcLower, builder.BcUpper)
           THEN /\ builder.status = "failed"
                /\ builder.matrix = << >>
                /\ builder.calls = << >>
                /\ builder.rows = {}
           ELSE /\ builder.matrix # << >>
                /\ builder.calls # << >>

\* a builder of degree 3 with an unsupported upper boundary condition was
\* constructed
C23_Witness ==
    /\ builder # NoBuilder
    /\ builder.BcLower = "HERMITE"
    /\ builder.BcUpper = "UNSUPPORTED"
    /\ degree(bsplines) = 3
    /\ builder.status = "failed"

(***************************************************************************)
(* Properties of compute_offset (specification FrontSpec).                 *)
(***************************************************************************)
\* the basis values at the interpolation point front() + degree
AtDegree == eval_basis(bsplines, NewValues(bsplines), builder.points[degree(bsplines)])

\* the basis value compute_offset selects: index degree/2 for an even degree,
\* for an odd degree mid = degree/2 when values(mid) > values(mid + 1) and
\* mid + 1 otherwise
Selected ==
    LET mid == degree(bsplines) \div 2
    IN  IF degree(bsplines) % 2 = 0 THEN mid
        ELSE IF RLt(AtDegree.values[mid + 1], AtDegree.values[mid]) THEN mid ELSE mid + 1

\* the column in which build_matrix_system stores the selected value of the
\* row of the interpolation point front() + degree
SelectedColumn ==
    modulo(AtDegree.jmin - builder.m_offset + Selected, nbasis(bsplines))

\* the constructor has run
FrontConstructed == builder # NoBuilder /\ builder.status # "aborted"

\* C24: for a periodic builder the selected basis value of the row of the
\* interpolation point front() + degree (row index degree) is stored on the
\* diagonal, whatever the uid of front(); for a non-periodic builder the
\* offset is 0
C24_OffsetOnDiagonal ==
    FrontConstructed =>
        IF bsplines.is_periodic
        THEN SelectedColumn = degree(bsplines)
        ELSE builder.m_offset = 0

\* the same on the interpolation domains whose front has uid 0
DiagonalFromFrontZero ==
    (FrontConstructed /\ builder.start = 0) =>
        IF bsplines.is_periodic
        THEN SelectedColumn = degree(bsplines)
        ELSE builder.m_offset = 0

\* on a front of uid start the selected value is in column
\* (start + degree) mod nbasis
ShiftedByFront ==
    (FrontConstructed /\ bsplines.is_periodic) =>
        SelectedColumn = modulo(builder.start + degree(bsplines), nbasis(bsplines))

\* a periodic builder on a front of uid 1 holds the selected value of row
\* degree next to the diagonal
OffDiagonalReached ==
    /\ FrontConstructed
    /\ bsplines.is_periodic
    /\ builder.start = 1
    /\ SelectedColumn # degree(bsplines)
    /\ builder.status = "ok"

(***************************************************************************)
(* Properties of build_matrix_system (specification FrontSpec).            *)
(***************************************************************************)
\* build_matrix_system has run to its end
SystemBuilt == builder # NoBuilder /\ builder.status \in {"ok", "failed"}

\* the columns of the set_element calls made on row i, in the order of the calls
ColumnsOfRow(i) ==
    LET RECURSIVE From(_)
        From(p) == IF p > Len(builder.elements) THEN << >>
                   ELSE IF builder.elements[p][1] = i
                        THEN <<builder.elements[p][2]>> \o From(p + 1)
                        ELSE From(p + 1)
    IN  From(1)

\* the cell of the interpolation point at position ix of the domain
CellOf(ix) == eval_basis(bsplines, NewValues(bsplines), builder.points[ix]).jmin

RhsFilled == HermiteCalled /\ LowerAccepted /\ UpperAccepted /\ builder.status # "aborted"

\* the coefficient buffer as operator() hands it to the transposition: the
\* lower derivatives, the sampled values, the upper derivatives
Rhs ==
    LET nbatch == NBatch
        lower  == IF builder.BcLower = "HERMITE"
                  THEN hermite_lower_coefficients(builder, NewSpline(bsplines, nbatch),
                                                  derivs_in.xmin, nbatch)
                  ELSE NewSpline(bsplines, nbatch)
        filled == fill_spline(builder, lower, vals,
                              nbasis(bsplines) - s_nbc_xmin(builder) - s_nbc_xmax(builder),
                              nbatch)
    IN  IF builder.BcUpper = "HERMITE"
        THEN hermite_upper_coefficients(builder, filled, derivs_in.xmax, nbatch)
        ELSE filled

\* the derivative of order o supplied for the side of matrix row i: the entry
\* of uid o + 1 - s_odd of the buffer of that side
Supplied(i, o) ==
    IF i < s_nbc_xmin(builder)
    THEN derivs_in.xmin.v[o + 1 - s_odd(builder)]
    ELSE derivs_in.xmax.v[o + 1 - s_odd(builder)]

\* the right-hand side of every matrix row of derivatives whose order is
\* among orders is the supplied derivative of that order times dx^order, and
\* the rows of the sampled values hold the sampled values
RhsMatches(orders) ==
    /\ \A q \in builder.orders :
           q[2] \in orders =>
               \A j \in 0 .. NBatch - 1 :
                   Rhs[q[1]][j] = RMul(Supplied(q[1], q[2])[j], ipow(builder.m_dx, q[2]))
    /\ \A ix \in DOMAIN vals : Rhs[s_nbc_xmin(builder) + ix] = vals[ix]

\* C26: on HERMITE sides operator() stores each supplied boundary derivative
\* in the right-hand-side row whose matrix row holds the basis derivatives of
\* the same order, times the same power of dx; lower values are in rows
\* [0, s_nbc_xmin), upper values in rows [nbasis - s_nbc_xmax, nbasis), and no
\* row of a sampled value is overwritten, for every degree
C26_HermiteRhsRows ==
    RhsFilled =>
        /\ RhsMatches(0 .. degree(bsplines))
        /\ {q[1] : q \in builder.orders}
               = (0 .. s_nbc_xmin(builder) - 1)
                 \cup (nbasis(bsplines) - s_nbc_xmax(builder) .. nbasis(bsplines) - 1)

\* the same for the builders whose upper side has at most one boundary equation
RhsMatchesUpToOne ==
    (RhsFilled /\ s_nbc_xmax(builder) <= 1) => RhsMatches(0 .. degree(bsplines))

\* the rows of the lower side alone, for every degree
LowerRhsMatches ==
    RhsFilled =>
        \A q \in builder.orders :
           q[1] < s_nbc_xmin(builder) =>
               \A j \in 0 .. NBatch - 1 :
                   Rhs[q[1]][j] = RMul(Supplied(q[1], q[2])[j], ipow(builder.m_dx, q[2]))

\* degree 4, HERMITE at xmax: the last sampled value is overwritten by the
\* second upper derivative and the last row is left unwritten
UpperRowsMisplaced ==
    /\ RhsFilled
    /\ degree(bsplines) = 4
    /\ builder.BcUpper = "HERMITE"
    /\ builder.status = "ok"
    /\ Rhs[nbasis(bsplines) - 3] # vals[nbasis(bsplines) - s_nbc_xmin(builder) - 3]
    /\ Rhs[nbasis(bsplines) - 3][0]
           = RMul(derivs_in.xmax.v[2][0], ipow(builder.m_dx, 1))
    /\ Rhs[nbasis(bsplines) - 1][0] = Garbage

(***************************************************************************)
(* Properties of the subscripts of operator().                             *)
(***************************************************************************)
\* operator() was called on a builder and passed its assertions
OperatorEntered ==
    /\ n_operator > 0
    /\ operator_asserts(builder, nbasis(bsplines) - s_nbc_xmin(builder) - s_nbc_xmax(builder),
                        derivs_in.xmin, derivs_in.xmax)

\* m_offset lies in 0 .. degree on a periodic builder and is 0 on any other,
\* and every row operator() subscripts lies in its buffer
OffsetInRange ==
    /\ IF bsplines.is_periodic
       THEN builder.m_offset \in 0 .. degree(bsplines)
       ELSE builder.m_offset = 0
    /\ operator_in_range(builder,
                         nbasis(bsplines) - s_nbc_xmin(builder) - s_nbc_xmax(builder))

\* C27: in operator() every index used on the coefficient buffer lies in
\* [0, size()) and every index used on the transposed buffer lies in
\* [0, required_number_of_rhs_rows()), m_offset being in 0 .. degree on a
\* periodic builder and 0 otherwise, whatever the uid of the first
\* interpolation point
C27_OperatorIndices == OperatorEntered => OffsetInRange

\* the same on the builders whose interpolation domain starts at uid 0
IndicesFromFrontZero == (OperatorEntered /\ builder.start = 0) => OffsetInRange

\* an index outside the buffer is used only with a negative m_offset, which
\* a front uid above 0 produces
OutOfRangeOnlyBelow ==
    (OperatorEntered /\ ~OffsetInRange)
        => /\ builder.start > 0
           /\ builder.m_offset < 0
           /\ builder.status \in {"aborted", "undefined"}

\* operator() on a periodic builder whose front has uid 1 subscripts row -1
\* of the coefficient buffer
RowBelowBufferReached ==
    /\ OperatorEntered
    /\ bsplines.is_periodic
    /\ builder.start = 1
    /\ builder.m_offset = -1
    /\ -1 \in operator_spline_indices(builder, nbasis(bsplines))
    /\ builder.status = "undefined"

\* a front uid above 0 that leaves m_offset in range: operator() returns
ShiftedOffsetInRangeReached ==
    /\ OperatorEntered
    /\ bsplines.is_periodic
    /\ builder.start > 0
    /\ OffsetInRange
    /\ builder.status = "ok"

(***************************************************************************)
(* Properties of the binary search of find_cell.                           *)
(***************************************************************************)
\* the loop of find_cell is running
Searching == basis_call.op = "find_cell" /\ basis_call.pc = "loop"

\* find_cell returned
Found == basis_call.op = "find_cell" /\ basis_call.pc = "returned"

\* knot(low) <= x < knot(high) and 0 <= low <= icell < high <= ncells
SearchBracket ==
    /\ RLe(get_knot(bsplines, basis_call.low), basis_call.x)
    /\ RLt(basis_call.x, get_knot(bsplines, basis_call.high))
    /\ 0 <= basis_call.low
    /\ basis_call.low <= basis_call.icell
    /\ basis_call.icell < basis_call.high
    /\ basis_call.high <= ncells(bsplines)

\* an iteration strictly shrinks high - low
SearchShrinks ==
    basis_call'.high - basis_call'.low < basis_call.high - basis_call.low

\* C28: on non-decreasing knots with rmin < rmax and rmin < x < rmax the loop
\* of find_cell keeps knot(low) <= x < knot(high) and
\* 0 <= low <= icell < high <= ncells, so that the knots icell and icell + 1
\* it reads are knots 0 .. ncells; every iteration strictly shrinks
\* high - low; and the loop terminates
C28_SearchTerminates ==
    /\ [](Searching => SearchBracket)
    /\ [][(Searching /\ Searching') => SearchShrinks]_vars
    /\ Searching ~> Found

\* the loop ran two iterations on knots with a repeated break point before
\* it returned a cell that holds x
C28_Witness ==
    /\ Found
    /\ basis_call.iterations = 2
    /\ \E c \in 0 .. ncells(bsplines) - 1 :
           get_knot(bsplines, c) = get_knot(bsplines, c + 1)
    /\ RLe(get_knot(bsplines, basis_call.ret), basis_call.x)
    /\ RLt(basis_call.x, get_knot(bsplines, basis_call.ret + 1))

\* the stepped loop returns what find_cell computes
SearchAgrees == Found => basis_call.ret = find_cell(bsplines, basis_call.x)

(***************************************************************************)
(* Properties of the subscripts of the evaluation functions.               *)
(***************************************************************************)
\* an evaluation function returned on an x of [rmin, rmax]
EvaluatedInDomain == Evaluated /\ InDomain /\ basis_call.ok

\* the subscripts of the call that returned
Accesses ==
    IF basis_call.op = "eval_basis"
    THEN eval_basis_accesses(bsplines, basis_call.jmin)
    ELSE IF basis_call.op = "eval_deriv"
    THEN eval_deriv_accesses(bsplines, basis_call.jmin)
    ELSE eval_basis_and_n_derivs_accesses(bsplines, basis_call.jmin, basis_call.n)

\* C29: for x in [rmin, rmax], degree >= 1 and n <= degree, the evaluation
\* functions read only the knots -degree .. ncells + degree, subscript left
\* and right within 0 .. degree - 1, ndu within (degree + 1) x (degree + 1),
\* a within (degree + 1) x 2 and the output span within its extents, and
\* return a first index icell with icell + degree <= size() - 1
C29_EvaluationInRange ==
    EvaluatedInDomain =>
        LET D == degree(bsplines)
        IN  /\ Accesses.knots \subseteq -D .. ncells(bsplines) + D
            /\ Accesses.work \subseteq 0 .. D - 1
            /\ basis_call.op = "eval_basis_and_n_derivs"
                   => /\ basis_call.n <= D
                      /\ Accesses.ndu \subseteq (0 .. D) \X (0 .. D)
                      /\ Accesses.a \subseteq (0 .. D) \X (0 .. 1)
                      /\ Accesses.out \subseteq (0 .. D) \X (0 .. basis_call.n)
            /\ basis_call.op # "eval_basis_and_n_derivs"
                   => Accesses.out \subseteq 0 .. D
            /\ basis_call.jmin + D <= bsplines_size(bsplines) - 1

\* eval_basis at rmax of an open basis of degree 3 reads the highest knot it
\* ever reads, ncells + degree - 1, and designates the last degree + 1 basis
\* functions
C29_Witness ==
    /\ EvaluatedInDomain
    /\ basis_call.op = "eval_basis"
    /\ ~bsplines.is_periodic
    /\ degree(bsplines) = 3
    /\ basis_call.x = rmax(bsplines)
    /\ ncells(bsplines) + 2 \in Accesses.knots
    /\ basis_call.jmin + 3 = bsplines_size(bsplines) - 1

\* the n-th derivatives with n = degree subscript the last row of a and the
\* first knot, -degree + 1 below the first cell
AllDerivsReached ==
    /\ EvaluatedInDomain
    /\ basis_call.op = "eval_basis_and_n_derivs"
    /\ basis_call.n = degree(bsplines)
    /\ degree(bsplines) = 3
    /\ <<3, 1>> \in Accesses.a
    /\ -2 \in Accesses.knots

(***************************************************************************)
(* Properties of get_element and set_element before setup_solver.          *)
(***************************************************************************)
\* the positions of the matrix
Positions == (0 .. matrix.m_size - 1) \X (0 .. matrix.m_size - 1)

\* the positions of the two coupling blocks
CouplingPositions ==
    LET nq == Block_size(matrix.m_top_left_block)
    IN  {p \in Positions : (p[1] < nq) # (p[2] < nq)}

\* set_element(i, j, v) returned: get_element(i, j) returns v
ReadsBackSet ==
    call.op = "set_element"
        => get_element(matrix, call.i, call.j) = [status |-> "ok", val |-> call.aij]

\* a step of set_element(i, j, v) leaves the value get_element reads at
\* every other position
OthersKept ==
    call'.op = "set_element"
        => \A p \in Positions \ {<<call'.i, call'.j>>} :
               get_element(matrix', p[1], p[2]) = get_element(matrix, p[1], p[2])

\* after construction every entry of the coupling blocks reads as 0
CouplingStartsZero ==
    call = NoCall
        => \A p \in CouplingPositions :
               get_element(matrix, p[1], p[2]) = [status |-> "ok", val |-> Zero]

\* C30: before setup_solver, get_element(i, j) after set_element(i, j, v)
\* returns v, set_element(i, j, v) changes the value read at no other
\* position, and an entry of the coupling blocks that was never set reads
\* as 0 (it reads as 0 after construction and no call at another position
\* changes it)
C30_ElementAccess ==
    /\ []ReadsBackSet
    /\ [][OthersKept]_vars
    /\ []CouplingStartsZero

\* an entry of the top-right block was set to 1 on a matrix with a nested
\* top-left block; it reads as 1, and the mirrored entry of the bottom-left
\* block, never set, reads as 0
C30_Witness ==
    /\ call.op = "set_element"
    /\ n_setup_solver = 0
    /\ Is2x2(matrix.m_top_left_block)
    /\ <<call.i, call.j>> \in CouplingPositions
    /\ call.i < call.j
    /\ call.aij = One
    /\ get_element(matrix, call.i, call.j).val = One
    /\ get_element(matrix, call.j, call.i).val = Zero
    /\ Weight(matrix) = 1

====
